---- MODULE Spec2Model ----
(***************************************************************************)
(* Proactive-talk scheduling engine: TriggerController (daily caps and     *)
(* minimum spacing, persisted), the error tracking of ProactiveManager,    *)
(* the retry wrapper, the engagement pipeline and the two trigger loops.   *)
(*                                                                         *)
(* Time is a discrete clock `now`; one tick is one hour for the rate       *)
(* limiter and one minute for the error cooldown (each specification uses  *)
(* only one of the two readings).  A calendar day is TicksPerDay ticks.    *)
(***************************************************************************)
EXTENDS Integers, Sequences, FiniteSets, TLC

VARIABLES
    config,     \* the configuration dict read by the constructors
    global_config, \* the host's global_config.chat (adapter allow-lists)
    now,        \* datetime.now()
    state,      \* TriggerController._state
    disk,       \* plugins/proactive_talk/trigger_state.json: <<>> or <<record>>
    op,         \* the TriggerController or management call made by the latest
                \* step (observer)
    pre,        \* the record that call was made on (observer, SpecRL only)
    health,     \* ProactiveManager error tracking fields
    hret,       \* the _is_system_healthy call made by the latest step (observer)
    errs_in_row,\* _record_error calls since the last success or reset (observer)
    retry,      \* the _retry_with_backoff execution in progress, or the one
                \* that returned in the latest step
    attempt,    \* the _attempt_proactive_speak entry made by the latest step:
                \* how its gates ended and the targets it built (observer)
    is_running, \* ProactiveManager.is_running
    starter,    \* start_all_triggers: "idle" or "gathering" (awaiting the loops)
    pc,         \* suspension point of the tasks in mood_trigger_task and
                \* random_trigger_task
    sent_ok,    \* the transport put a message out in the latest step (observer)
    last_rec,   \* time of the latest recorded trigger (observer)
    spacing_ok, \* the latest step did not record a trigger too soon (observer)
    overlapped, \* two pipeline attempts have been in flight at once (observer)
    lj,         \* the llm_judge section of the configuration
    judge,      \* the latest _llm_should_speak call: what the model service
                \* answered and what the method made of it (observer)
    cycle,      \* the latest _attempt_proactive_speak call followed through
                \* its stages: which stages failed, how it ended (observer)
    earlier,    \* the start_all_triggers calls before the latest one that
                \* have not returned, each with the two loop tasks it awaits
    handler     \* the ProactiveStartupHandler: its fields, its delayed
                \* auto-start task and the managers it has constructed

vars == <<config, global_config, now, state, disk, op, pre, health, hret,
          errs_in_row, retry, attempt,
          is_running, starter, pc, sent_ok, last_rec, spacing_ok, overlapped,
          lj, judge, cycle, earlier, handler>>

\* ProactiveStartupHandler.__init__ with the event loop running: the fields
\* and the auto-start task just created.  `managers` lists every
\* ProactiveManager constructed, by what its start_all_triggers task has done;
\* `test_request` is set once _test_api_access has sent its request to the
\* model service.
NewHandler ==
    [plugin_config |-> "None",
     manager |-> 0,
     auto_started |-> FALSE,
     task |-> "sleep",
     retry_count |-> 0,
     on_start |-> 0,
     test_request |-> FALSE,
     managers |-> <<>>]

(***************************************************************************)
(* Bounds of the model                                                     *)
(***************************************************************************)
TicksPerDay == 3
MaxTime == 7
MaxCap == 2
MaxCount == 3
MaxAttempts == 9
EngineMaxTime == 4
EngineMaxCalls == 7
HealthMaxTime == 4
MaxEarlier == 2
MaxOnStart == 1
MaxReplyLen == 3

None == -1
Kinds == {"mood", "random"}
OtherKind(k) == IF k = "mood" THEN "random" ELSE "mood"
MinIntervalChoices == {0, 2}

Today(t) == t \div TicksPerDay

(***************************************************************************)
(* TriggerController                                                       *)
(***************************************************************************)
CreateNewDayState(today) ==
    [today |-> today,
     mood_triggers_today |-> 0,
     random_triggers_today |-> 0,
     total_triggers_today |-> 0,
     last_trigger_time |-> None,
     last_mood_trigger |-> None,
     last_random_trigger |-> None]

\* A file that json.load rejects or that holds no JSON object (the exception
\* is caught by _load_state), and a JSON object that has only its "today" key.
GarbageFile == [garbage |-> TRUE]
PartialFile(today) == [today |-> today]

\* state.get("today"): None when the key is missing.
HasToday(f) == "today" \in DOMAIN f

\* Every key the methods subscript is present.
WellFormed(st) == DOMAIN st = DOMAIN CreateNewDayState(0)

\* _load_state: a stored record of another day (or without a date) is
\* replaced, a missing or unreadable file gives a fresh record, a stored
\* object dated today is taken as it is; nothing is written back.
LoadState(d, t) ==
    IF d # <<>>
    THEN IF ~HasToday(d[1]) THEN CreateNewDayState(Today(t))
         ELSE IF d[1].today # Today(t) THEN CreateNewDayState(Today(t))
         ELSE d[1]
    ELSE CreateNewDayState(Today(t))

SaveState_NoWrite(st, d) == d

\* _save_state: the file d is replaced by the record st.
SaveState(st, d) == <<st>>

CheckNewDay_AlwaysReset(st, t) ==
    CreateNewDayState(Today(t))

CheckNewDay_KeepCounts(st, t) ==
    [st EXCEPT !.today = Today(t)]

\* _check_new_day: the record after the call.
CheckNewDay(st, t) ==
    IF st.today # Today(t) THEN CreateNewDayState(Today(t)) ELSE st

\* _save_state is called by _check_new_day only when the record was replaced.
SaveOnNewDay(st, d, t) ==
    IF st.today # Today(t) THEN SaveState(CheckNewDay(st, t), d) ELSE d

CheckMinInterval_Inverted(st, t) ==
    IF st.last_trigger_time = None
    THEN TRUE
    ELSE IF t - st.last_trigger_time > config.min_interval_hours
         THEN FALSE
         ELSE TRUE

CheckMinInterval(st, t) ==
    IF st.last_trigger_time = None
    THEN TRUE
    ELSE IF t - st.last_trigger_time < config.min_interval_hours
         THEN FALSE
         ELSE TRUE

CanTriggerMood(st, t) ==
    LET s == CheckNewDay(st, t) IN
    IF s.mood_triggers_today >= config.mood_max_daily THEN FALSE
    ELSE IF s.total_triggers_today >= config.max_daily_triggers THEN FALSE
    ELSE IF ~CheckMinInterval(s, t) THEN FALSE
    ELSE TRUE

CanTriggerRandom_MoodCount(st, t) ==
    LET s == CheckNewDay(st, t) IN
    IF s.mood_triggers_today >= config.random_max_daily THEN FALSE
    ELSE IF s.total_triggers_today >= config.max_daily_triggers THEN FALSE
    ELSE IF ~CheckMinInterval(s, t) THEN FALSE
    ELSE TRUE

CanTriggerRandom_NoTotal(st, t) ==
    LET s == CheckNewDay(st, t) IN
    IF s.random_triggers_today >= config.random_max_daily THEN FALSE
    ELSE IF ~CheckMinInterval(s, t) THEN FALSE
    ELSE TRUE

CanTriggerRandom(st, t) ==
    LET s == CheckNewDay(st, t) IN
    IF s.random_triggers_today >= config.random_max_daily THEN FALSE
    ELSE IF s.total_triggers_today >= config.max_daily_triggers THEN FALSE
    ELSE IF ~CheckMinInterval(s, t) THEN FALSE
    ELSE TRUE

CanTrigger(k, st, t) ==
    IF k = "mood" THEN CanTriggerMood(st, t) ELSE CanTriggerRandom(st, t)

RecordMoodTrigger_NoKindStamp(st, t) ==
    LET s == CheckNewDay(st, t) IN
    [s EXCEPT !.mood_triggers_today = @ + 1,
              !.total_triggers_today = @ + 1,
              !.last_trigger_time = t]

RecordMoodTrigger(st, t) ==
    LET s == CheckNewDay(st, t) IN
    [s EXCEPT !.mood_triggers_today = @ + 1,
              !.total_triggers_today = @ + 1,
              !.last_trigger_time = t,
              !.last_mood_trigger = t]

RecordRandomTrigger_NoTotal(st, t) ==
    LET s == CheckNewDay(st, t) IN
    [s EXCEPT !.random_triggers_today = @ + 1,
              !.last_trigger_time = t,
              !.last_random_trigger = t]

RecordRandomTrigger(st, t) ==
    LET s == CheckNewDay(st, t) IN
    [s EXCEPT !.random_triggers_today = @ + 1,
              !.total_triggers_today = @ + 1,
              !.last_trigger_time = t,
              !.last_random_trigger = t]

RecordTrigger(k, st, t) ==
    IF k = "mood" THEN RecordMoodTrigger(st, t) ELSE RecordRandomTrigger(st, t)

NoOp == [name |-> "none", kind |-> "none", ret |-> FALSE]

CanTriggerOp(k, st, t) ==
    [name |-> "can_trigger", kind |-> k, ret |-> CanTrigger(k, st, t)]

RecordOp(k) ==
    [name |-> "record", kind |-> k, ret |-> FALSE]

\* A can_trigger_K or record_K_trigger call subscripts a key that the record
\* (after _check_new_day) does not have: KeyError.
CallRaises(st, t) == ~WellFormed(CheckNewDay(st, t))

RaisedOp(k) ==
    [name |-> "KeyError", kind |-> k, ret |-> FALSE]

NoPre == CreateNewDayState(0)

(***************************************************************************)
(* ProactiveManager: error tracking                                        *)
(***************************************************************************)
ErrorTypes == {"TimeoutError", "ValueError"}
CooldownEntryThreshold == 5

InitHealth ==
    [consecutive_failures |-> 0,
     last_error_time |-> None,
     error_types |-> [e \in ErrorTypes |-> 0],
     is_in_cooldown |-> FALSE,
     total_attempts |-> 0,
     total_successes |-> 0]

Max(a, b) == IF a >= b THEN a ELSE b

\* success_rate < 0.3 with success_rate = total_successes / max(total_attempts, 1)
LowSuccessRate(h) ==
    10 * h.total_successes < 3 * Max(h.total_attempts, 1)

CooldownEnd(h) == h.last_error_time + config.error_cooldown_minutes

IsSystemHealthy_LateExpiry(h, t) ==
    LET timed == h.is_in_cooldown /\ h.last_error_time # None
        h1 == IF timed /\ ~(t <= CooldownEnd(h))
              THEN [h EXCEPT !.is_in_cooldown = FALSE,
                             !.consecutive_failures = 0]
              ELSE h
    IN  IF timed /\ t <= CooldownEnd(h)
        THEN [health |-> h, ret |-> FALSE]
        ELSE IF h1.consecutive_failures >= config.stop_on_consecutive_failures
        THEN [health |-> h1, ret |-> FALSE]
        ELSE IF /\ config.safe_mode
                /\ h1.consecutive_failures > 0
                /\ LowSuccessRate(h1)
        THEN [health |-> h1, ret |-> FALSE]
        ELSE [health |-> h1, ret |-> TRUE]

\* _is_system_healthy: the returned value and the fields after the call.
IsSystemHealthy(h, t) ==
    LET timed == h.is_in_cooldown /\ h.last_error_time # None
        h1 == IF timed /\ ~(t < CooldownEnd(h))
              THEN [h EXCEPT !.is_in_cooldown = FALSE,
                             !.consecutive_failures = 0]
              ELSE h
    IN  IF timed /\ t < CooldownEnd(h)
        THEN [health |-> h, ret |-> FALSE]
        ELSE IF h1.consecutive_failures >= config.stop_on_consecutive_failures
        THEN [health |-> h1, ret |-> FALSE]
        ELSE IF /\ config.safe_mode
                /\ h1.consecutive_failures > 0
                /\ LowSuccessRate(h1)
        THEN [health |-> h1, ret |-> FALSE]
        ELSE [health |-> h1, ret |-> TRUE]

RecordError_Above(h, e, t) ==
    LET h1 == [h EXCEPT !.error_types[e] = @ + 1,
                        !.consecutive_failures = @ + 1,
                        !.last_error_time = t]
    IN  IF h1.consecutive_failures > CooldownEntryThreshold
        THEN [h1 EXCEPT !.is_in_cooldown = TRUE]
        ELSE h1

\* _record_error
RecordError(h, e, t) ==
    LET h1 == [h EXCEPT !.error_types[e] = @ + 1,
                        !.consecutive_failures = @ + 1,
                        !.last_error_time = t]
    IN  IF h1.consecutive_failures >= CooldownEntryThreshold
        THEN [h1 EXCEPT !.is_in_cooldown = TRUE]
        ELSE h1

RecordSuccess_KeepCooldown(h) ==
    [h EXCEPT !.consecutive_failures = 0,
              !.total_successes = @ + 1]

\* _record_success
RecordSuccess(h) ==
    [h EXCEPT !.consecutive_failures = 0,
              !.total_successes = @ + 1,
              !.is_in_cooldown = FALSE]

ResetHealth_KeepCooldown(h) ==
    [h EXCEPT !.consecutive_failures = 0,
              !.last_error_time = None,
              !.error_types = [e \in ErrorTypes |-> 0]]

\* reset_error_state: the error tracking fields after the call.
ResetHealth(h) ==
    [h EXCEPT !.consecutive_failures = 0,
              !.is_in_cooldown = FALSE,
              !.last_error_time = None,
              !.error_types = [e \in ErrorTypes |-> 0]]

BeginCall_AfterOutcome(h) == h

\* One pass of _retry_with_backoff up to the awaited operation.
BeginCall(h) == [h EXCEPT !.total_attempts = @ + 1]

HealthyName(b) == IF b THEN "healthy" ELSE "unhealthy"

\* No _retry_with_backoff execution.  `attempt` is the loop variable, `calls`
\* the invocations of the operation, `fails` the exceptions it raised,
\* `errors` / `successes` the _record_error / _record_success calls made by
\* the execution, `result` how it ended: "value", "None" or "raised", `delay`
\* the seconds of its latest back-off sleep, `slept` those of all its sleeps.
IdleRetry ==
    [pc |-> "idle", operation |-> "none", attempt |-> 0, calls |-> 0,
     fails |-> 0, errors |-> 0, successes |-> 0, result |-> "none",
     delay |-> 0, slept |-> 0]

BackoffDelay_Flat(n) == config.retry_delay_seconds

\* Line 437: the delay before the pass that follows pass number n.
BackoffDelay(n) == config.retry_delay_seconds * n

\* for attempt in range(1, max_retry_attempts + 1): first pass, up to the await.
RetryBegin(name) ==
    [IdleRetry EXCEPT !.pc = "calling", !.operation = name,
                      !.attempt = 1, !.calls = 1]

\* The next pass of the for loop, up to the await.
RetryAgain(r) ==
    [r EXCEPT !.pc = "calling", !.attempt = @ + 1, !.calls = @ + 1]

\* Lines 425-430: the awaited operation returned a value.
RetrySucceeds(r) ==
    [r EXCEPT !.pc = "returned", !.successes = @ + 1, !.result = "value"]

\* Lines 444-450: after the loop, None is returned or last_error is raised.
RetryExhausted ==
    IF config.fallback_enabled THEN "None" ELSE "raised"

RetryFails_EachAttempt(r) ==
    IF r.attempt < config.max_retry_attempts
    THEN [r EXCEPT !.pc = "sleeping", !.fails = @ + 1, !.errors = @ + 1,
                   !.delay = BackoffDelay(r.attempt),
                   !.slept = @ + BackoffDelay(r.attempt)]
    ELSE [r EXCEPT !.pc = "returned", !.fails = @ + 1, !.errors = @ + 1,
                   !.result = RetryExhausted]

RetryFails_NoRecord(r) ==
    IF r.attempt < config.max_retry_attempts
    THEN [r EXCEPT !.pc = "sleeping", !.fails = @ + 1,
                   !.delay = BackoffDelay(r.attempt),
                   !.slept = @ + BackoffDelay(r.attempt)]
    ELSE [r EXCEPT !.pc = "returned", !.fails = @ + 1,
                   !.result = RetryExhausted]

\* Lines 432-442: the awaited operation raised: sleep before the next pass,
\* or call _record_error and leave the loop on the last pass.
RetryFails(r) ==
    IF r.attempt < config.max_retry_attempts
    THEN [r EXCEPT !.pc = "sleeping", !.fails = @ + 1,
                   !.delay = BackoffDelay(r.attempt),
                   !.slept = @ + BackoffDelay(r.attempt)]
    ELSE [r EXCEPT !.pc = "returned", !.fails = @ + 1, !.errors = @ + 1,
                   !.result = RetryExhausted]

\* An execution that returned is over once the caller goes on.
Settle(r) == IF r.pc = "returned" THEN IdleRetry ELSE r

\* The executions of the engine: the wrapped operation returned a value on
\* the first pass.
Returned(name) == RetrySucceeds(RetryBegin(name))

(***************************************************************************)
(* ProactiveManager: target selection                                      *)
(***************************************************************************)
AllowLists == {<<>>, <<"A">>, <<"B", "C">>}
ListTypes == {"whitelist", "blacklist"}

NoAdapterLists ==
    [private_list_type |-> "whitelist", private_list |-> <<>>,
     group_list_type |-> "whitelist", group_list |-> <<>>]

\* [f"private:{uid}" for uid in ids]: every id tagged with its pool.
Prefixed(tag, ids) == [i \in 1..Len(ids) |-> <<tag, ids[i]>>]

\* Lines 311-329: the adapter list counts only when its type is "whitelist".
AdapterList(type, ids) == IF type = "whitelist" THEN ids ELSE <<>>

Candidates_AdapterFirst(tag, plugin, adapter) ==
    IF adapter # <<>> THEN Prefixed(tag, adapter)
    ELSE IF plugin # <<>> THEN Prefixed(tag, plugin)
    ELSE <<>>

\* Lines 332-344 and 347-357: the candidates of one enabled pool.
Candidates(tag, plugin, adapter) ==
    IF plugin = <<>> /\ adapter # <<>> THEN Prefixed(tag, adapter)
    ELSE IF plugin # <<>> THEN Prefixed(tag, plugin)
    ELSE <<>>

\* _get_available_targets
GetAvailableTargets(cfg, gc) ==
    LET adapter_priv == AdapterList(gc.private_list_type, gc.private_list)
        adapter_group == AdapterList(gc.group_list_type, gc.group_list)
        priv == IF cfg.enable_private
                THEN Candidates("private", cfg.target_private_whitelist,
                                adapter_priv)
                ELSE <<>>
        group == IF cfg.enable_group
                 THEN Candidates("group", cfg.target_groups, adapter_group)
                 ELSE <<>>
    IN  priv \o group

NoAttempt == [outcome |-> "none", targets |-> <<>>]

AttemptGate_NoHealthGate(healthy, tg) ==
    IF tg = <<>> THEN "no_targets" ELSE "proceed"

AttemptGate_NoTargetCheck(healthy, tg) ==
    IF ~healthy THEN "unhealthy" ELSE "proceed"

\* Lines 193-202: the health gate, then the target selection.
AttemptGate(healthy, tg) ==
    IF ~healthy THEN "unhealthy"
    ELSE IF tg = <<>> THEN "no_targets"
    ELSE "proceed"

Kinds2Pc == [k \in Kinds |-> "idle"]

(***************************************************************************)
(* _llm_should_speak: the reading of the judge's reply                     *)
(***************************************************************************)
\* Probabilities are in percent; random.random() is a draw d with the test
\* d < rate.
PositiveBiasFloor == 70
NoModelRate == 60
ImportErrorRate == 30
JudgeUnknownRate == 30

\* plugin.py: the defaults of the llm_judge section.
DefaultJudgeConfig ==
    [failure_allow_rate |-> 50, ambiguous_allow_rate_mood |-> 60,
     ambiguous_allow_rate_random |-> 50, positive_bias |-> TRUE]

\* A reply is a sequence of characters; a character outside ASCII is written
\* as its code point: U662F (shi, "is"), U5426 (fou, "no"), U4E0D (bu, "not"),
\* U53EF U4EE5 (keyi, "may"), U53EF U80FD (keneng, "perhaps"), U4E5F U8BB8
\* (yexu, "maybe"), U8BD5 U8BD5 (shishi, "try"), U5427 (ba, a final particle).
Lower(c) == IF c = "N" THEN "n" ELSE IF c = "O" THEN "o" ELSE c

\* str.lower
LowerStr(r) == [i \in 1..Len(r) |-> Lower(r[i])]

RECURSIVE LStrip(_)
LStrip(r) == IF r # <<>> /\ Head(r) = " " THEN LStrip(Tail(r)) ELSE r

RECURSIVE RStrip(_)
RStrip(r) ==
    IF r # <<>> /\ r[Len(r)] = " " THEN RStrip(SubSeq(r, 1, Len(r) - 1)) ELSE r

\* str.strip
Strip(r) == RStrip(LStrip(r))

\* `t in r` for strings: t occurs in r as a substring.
Contains(r, t) ==
    \E i \in 1..(Len(r) - Len(t) + 1) : SubSeq(r, i, i + Len(t) - 1) = t

AffirmativeTokens == { <<"y", "e", "s">>, <<"U662F">>, <<"U53EF", "U4EE5">> }
NegativeTokens == { <<"n", "o">>, <<"U5426">>, <<"U4E0D">> }
HedgingTokens ==
    { <<"m", "a", "y", "b", "e">>, <<"U53EF", "U80FD">>, <<"U4E5F", "U8BB8">>,
      <<"U8BD5", "U8BD5">>, <<"U53EF", "U4EE5", "U5427">>, <<"o", "k">> }

IsAffirmative(r) == \E t \in AffirmativeTokens : Contains(r, t)
IsNegative(r) == \E t \in NegativeTokens : Contains(r, t)
IsHedging(r) == \E t \in HedgingTokens : Contains(r, t)

\* response.lower().strip()
ResponseLower(response) == Strip(LowerStr(response))

AmbiguousRate(cfg, k) ==
    IF k = "mood" THEN cfg.ambiguous_allow_rate_mood
    ELSE cfg.ambiguous_allow_rate_random

EffectiveRate_NoBoost(cfg, k, r) == AmbiguousRate(cfg, k)

\* The allow rate of the ambiguous branch.
EffectiveRate(cfg, k, r) ==
    IF cfg.positive_bias /\ IsHedging(r)
    THEN Max(AmbiguousRate(cfg, k), PositiveBiasFloor)
    ELSE AmbiguousRate(cfg, k)

NoJudge ==
    [fault |-> "none", model |-> TRUE, ok |-> TRUE, response |-> <<>>,
     kind |-> "none", draw |-> None, branch |-> "none", rate |-> None,
     speak |-> FALSE]

\* _llm_should_speak for a trigger of kind k.  fault: what the llm_api calls
\* raise ("none", "ImportError", "Exception"); model: a model was found;
\* ok, response: the answer of generate_with_model; d: the random draw.
LLMShouldSpeak(cfg, k, fault, model, ok, response, d) ==
    LET r == ResponseLower(response)
        rate == EffectiveRate(cfg, k, r)
    IN  IF fault = "ImportError"
        THEN [branch |-> "import_error", rate |-> ImportErrorRate,
              speak |-> d < ImportErrorRate]
        ELSE IF fault = "Exception"
        THEN [branch |-> "exception", rate |-> None, speak |-> TRUE]
        ELSE IF ~model
        THEN [branch |-> "no_model", rate |-> NoModelRate,
              speak |-> d < NoModelRate]
        ELSE IF ~ok \/ response = <<>>
        THEN [branch |-> "failure", rate |-> cfg.failure_allow_rate,
              speak |-> d < cfg.failure_allow_rate]
        ELSE IF IsAffirmative(r)
        THEN [branch |-> "yes", rate |-> None, speak |-> TRUE]
        ELSE IF IsNegative(r)
        THEN [branch |-> "no", rate |-> None, speak |-> FALSE]
        ELSE [branch |-> "ambiguous", rate |-> rate, speak |-> d < rate]

\* No _attempt_proactive_speak call followed yet.  `trail` lists the stages
\* whose _retry_with_backoff execution has ended, each with how it ended:
\* "true" or "false" (the value returned), "None" or "raised".
NoCycle ==
    [kind |-> "none", end |-> "none", failed |-> {}, sent |-> FALSE,
     recorded |-> FALSE, draw |-> None, judged |-> "none", trail |-> <<>>]

(***************************************************************************)
(* The rate limiter driven through its public methods                      *)
(***************************************************************************)
RLConfigs ==
    [max_daily_triggers : 1..MaxCap,
     mood_max_daily : 1..MaxCap,
     random_max_daily : 1..MaxCap,
     min_interval_hours : MinIntervalChoices,
     max_retry_attempts : {3},
     retry_delay_seconds : {5},
     stop_on_consecutive_failures : {10},
     error_cooldown_minutes : {30},
     safe_mode : {TRUE},
     fallback_enabled : {TRUE},
     use_llm_judge : {TRUE},
     enable_private : {TRUE},
     enable_group : {TRUE},
     target_private_whitelist : {<<"A">>},
     target_groups : {<<>>}]

InitRL ==
    /\ config \in RLConfigs
    /\ global_config = NoAdapterLists
    /\ attempt = NoAttempt
    /\ now = 0
    /\ disk = <<>>
    /\ state = LoadState(disk, now)
    /\ op = NoOp
    /\ pre = NoPre
    /\ health = InitHealth
    /\ hret = "none"
    /\ errs_in_row = 0
    /\ retry = IdleRetry
    /\ is_running = FALSE
    /\ starter = "idle"
    /\ pc = Kinds2Pc
    /\ sent_ok = FALSE
    /\ last_rec = None
    /\ spacing_ok = TRUE
    /\ overlapped = FALSE
    /\ lj = DefaultJudgeConfig
    /\ judge = NoJudge
    /\ cycle = NoCycle
    /\ earlier = <<>>
    /\ handler = NewHandler

managerVars == <<health, hret, errs_in_row, retry, attempt, is_running,
                 starter, pc,
                 sent_ok, last_rec, spacing_ok, overlapped>>

RLCanTrigger(k) ==
    /\ IF CallRaises(state, now)
       THEN /\ op' = RaisedOp(k)
            /\ UNCHANGED <<state, disk>>
       ELSE /\ state' = CheckNewDay(state, now)
            /\ disk' = SaveOnNewDay(state, disk, now)
            /\ op' = CanTriggerOp(k, state, now)
    /\ pre' = state
    /\ UNCHANGED <<config, global_config, lj, judge, cycle, earlier, handler, now, managerVars>>

RLRecord(k) ==
    /\ IF CallRaises(state, now)
       THEN /\ op' = RaisedOp(k)
            /\ UNCHANGED <<state, disk>>
       ELSE /\ CheckNewDay(state, now).total_triggers_today < MaxCount
            /\ state' = RecordTrigger(k, state, now)
            /\ disk' = SaveState(state', disk)
            /\ op' = RecordOp(k)
    /\ pre' = state
    /\ UNCHANGED <<config, global_config, lj, judge, cycle, earlier, handler, now, managerVars>>

RLTick ==
    /\ now < MaxTime
    /\ now' = now + 1
    /\ op' = NoOp
    /\ pre' = NoPre
    /\ UNCHANGED <<config, global_config, lj, judge, cycle, earlier, handler, state, disk, managerVars>>

\* The process is restarted: TriggerController.__init__ loads the file.
RLRestart ==
    /\ state' = LoadState(disk, now)
    /\ op' = NoOp
    /\ pre' = NoPre
    /\ UNCHANGED <<config, global_config, lj, judge, cycle, earlier, handler, now, disk, managerVars>>

NextRL ==
    \/ \E k \in Kinds : RLCanTrigger(k)
    \/ \E k \in Kinds : RLRecord(k)
    \/ RLTick
    \/ RLRestart

SpecRL == InitRL /\ [][NextRL]_vars

(***************************************************************************)
(* The error tracking driven by the retry wrapper and by its callers       *)
(***************************************************************************)
StopChoices == {6, 7}
CooldownChoices == {2}
RetryChoices == {1, 2}

HTConfigs ==
    [max_daily_triggers : {1},
     mood_max_daily : {1},
     random_max_daily : {1},
     min_interval_hours : {0},
     max_retry_attempts : RetryChoices,
     retry_delay_seconds : {5},
     stop_on_consecutive_failures : StopChoices,
     error_cooldown_minutes : CooldownChoices,
     safe_mode : BOOLEAN,
     fallback_enabled : {TRUE},
     use_llm_judge : {TRUE},
     enable_private : {TRUE},
     enable_group : {TRUE},
     target_private_whitelist : {<<"A">>},
     target_groups : {<<>>}]

InitHT ==
    /\ config \in HTConfigs
    /\ global_config = NoAdapterLists
    /\ attempt = NoAttempt
    /\ now = 0
    /\ disk = <<>>
    /\ state = LoadState(disk, now)
    /\ op = NoOp
    /\ pre = NoPre
    /\ health = InitHealth
    /\ hret = "none"
    /\ errs_in_row = 0
    /\ retry = IdleRetry
    /\ is_running = FALSE
    /\ starter = "idle"
    /\ pc = Kinds2Pc
    /\ sent_ok = FALSE
    /\ last_rec = None
    /\ spacing_ok = TRUE
    /\ overlapped = FALSE
    /\ lj = DefaultJudgeConfig
    /\ judge = NoJudge
    /\ cycle = NoCycle
    /\ earlier = <<>>
    /\ handler = NewHandler

htFrame == <<config, global_config, lj, judge, cycle, earlier, handler, state, disk, op, pre, is_running, starter, pc, sent_ok,
             last_rec, spacing_ok, overlapped>>

\* _retry_with_backoff is entered by a stage of an attempt that passed its
\* gates: first pass of the for loop up to the await.
HTRetryStart ==
    /\ retry.pc \in {"idle", "returned"}
    /\ health.total_attempts + config.max_retry_attempts <= MaxAttempts
    /\ health' = [health EXCEPT !.total_attempts = @ + 1]
    /\ retry' = RetryBegin("stage")
    /\ hret' = "none"
    /\ attempt' = NoAttempt
    /\ UNCHANGED <<now, errs_in_row, htFrame>>

\* The awaited operation returns a value.
HTOpSucceeds ==
    /\ retry.pc = "calling"
    /\ health' = RecordSuccess(health)
    /\ errs_in_row' = 0
    /\ retry' = RetrySucceeds(retry)
    /\ hret' = "none"
    /\ attempt' = NoAttempt
    /\ UNCHANGED <<now, htFrame>>

\* The awaited operation raises: back off, or give up on the last attempt.
HTOpFails(e) ==
    /\ retry.pc = "calling"
    /\ retry' = RetryFails(retry)
    /\ IF retry'.errors > retry.errors
       THEN /\ health' = RecordError(health, e, now)
            /\ errs_in_row' = errs_in_row + 1
       ELSE UNCHANGED <<health, errs_in_row>>
    /\ hret' = "none"
    /\ attempt' = NoAttempt
    /\ UNCHANGED <<now, htFrame>>

\* The back-off sleep ends: next pass of the for loop up to the await.
HTSleepDone ==
    /\ retry.pc = "sleeping"
    /\ health' = [health EXCEPT !.total_attempts = @ + 1]
    /\ retry' = RetryAgain(retry)
    /\ hret' = "none"
    /\ attempt' = NoAttempt
    /\ UNCHANGED <<now, errs_in_row, htFrame>>

\* _attempt_proactive_speak is entered: health gate, target selection, then
\* the activity check is handed to _retry_with_backoff.
HTAttempt ==
    /\ retry.pc \in {"idle", "returned"}
    /\ health.total_attempts + config.max_retry_attempts <= MaxAttempts
    /\ LET hc == IsSystemHealthy(health, now)
           tg == IF hc.ret THEN GetAvailableTargets(config, global_config)
                 ELSE <<>>
           go == AttemptGate(hc.ret, GetAvailableTargets(config, global_config))
       IN  /\ hret' = HealthyName(hc.ret)
           /\ attempt' = [outcome |-> go, targets |-> tg]
           /\ IF go = "proceed"
              THEN /\ health' = BeginCall(hc.health)
                   /\ retry' = RetryBegin("activity")
              ELSE /\ health' = hc.health
                   /\ retry' = Settle(retry)
    /\ UNCHANGED <<now, errs_in_row, htFrame>>

\* _is_system_healthy is called by get_system_status.
HTIsSystemHealthy ==
    /\ health' = IsSystemHealthy(health, now).health
    /\ hret' = HealthyName(IsSystemHealthy(health, now).ret)
    /\ retry' = Settle(retry)
    /\ attempt' = NoAttempt
    /\ UNCHANGED <<now, errs_in_row, htFrame>>

HTResetErrorState ==
    /\ health' = ResetHealth(health)
    /\ errs_in_row' = 0
    /\ hret' = "none"
    /\ retry' = Settle(retry)
    /\ attempt' = NoAttempt
    /\ UNCHANGED <<now, htFrame>>

HTTick ==
    /\ now < HealthMaxTime
    /\ now' = now + 1
    /\ hret' = "none"
    /\ retry' = Settle(retry)
    /\ attempt' = NoAttempt
    /\ UNCHANGED <<health, errs_in_row, htFrame>>

NextHT ==
    \/ HTRetryStart
    \/ HTOpSucceeds
    \/ \E e \in ErrorTypes : HTOpFails(e)
    \/ HTSleepDone
    \/ HTAttempt
    \/ HTIsSystemHealthy
    \/ HTResetErrorState
    \/ HTTick

SpecHT == InitHT /\ [][NextHT]_vars

(***************************************************************************)
(* The retry wrapper alone, around an operation that may raise              *)
(***************************************************************************)
RetryAttemptChoices == {1, 2, 3}
RetryDelayChoices == {1, 2}

RXConfigs ==
    [max_daily_triggers : {1},
     mood_max_daily : {1},
     random_max_daily : {1},
     min_interval_hours : {0},
     max_retry_attempts : RetryAttemptChoices,
     retry_delay_seconds : RetryDelayChoices,
     stop_on_consecutive_failures : {10},
     error_cooldown_minutes : {30},
     safe_mode : {TRUE},
     fallback_enabled : BOOLEAN,
     use_llm_judge : {TRUE},
     enable_private : {TRUE},
     enable_group : {TRUE},
     target_private_whitelist : {<<"A">>},
     target_groups : {<<>>}]

InitRX ==
    /\ config \in RXConfigs
    /\ global_config = NoAdapterLists
    /\ now = 0
    /\ disk = <<>>
    /\ state = LoadState(disk, now)
    /\ op = NoOp
    /\ pre = NoPre
    /\ health = InitHealth
    /\ hret = "none"
    /\ errs_in_row = 0
    /\ retry = IdleRetry
    /\ attempt = NoAttempt
    /\ is_running = FALSE
    /\ starter = "idle"
    /\ pc = Kinds2Pc
    /\ sent_ok = FALSE
    /\ last_rec = None
    /\ spacing_ok = TRUE
    /\ overlapped = FALSE
    /\ lj = DefaultJudgeConfig
    /\ judge = NoJudge
    /\ cycle = NoCycle
    /\ earlier = <<>>
    /\ handler = NewHandler

NextRX ==
    \/ HTRetryStart
    \/ HTOpSucceeds
    \/ \E e \in ErrorTypes : HTOpFails(e)
    \/ HTSleepDone

SpecRX == InitRX /\ [][NextRX]_vars

(***************************************************************************)
(* Attempts made under every combination of pool switches, plugin          *)
(* allow-lists and adapter lists                                           *)
(***************************************************************************)
TGConfigs ==
    [max_daily_triggers : {1},
     mood_max_daily : {1},
     random_max_daily : {1},
     min_interval_hours : {0},
     max_retry_attempts : {1},
     retry_delay_seconds : {5},
     stop_on_consecutive_failures : {10},
     error_cooldown_minutes : {30},
     safe_mode : {FALSE},
     fallback_enabled : {TRUE},
     use_llm_judge : {TRUE},
     enable_private : BOOLEAN,
     enable_group : BOOLEAN,
     target_private_whitelist : AllowLists,
     target_groups : AllowLists]

TGAdapters ==
    [private_list_type : ListTypes, private_list : AllowLists,
     group_list_type : ListTypes, group_list : AllowLists]

InitTG ==
    /\ config \in TGConfigs
    /\ global_config \in TGAdapters
    /\ now = 0
    /\ disk = <<>>
    /\ state = LoadState(disk, now)
    /\ op = NoOp
    /\ pre = NoPre
    /\ health = InitHealth
    /\ hret = "none"
    /\ errs_in_row = 0
    /\ retry = IdleRetry
    /\ attempt = NoAttempt
    /\ is_running = FALSE
    /\ starter = "idle"
    /\ pc = Kinds2Pc
    /\ sent_ok = FALSE
    /\ last_rec = None
    /\ spacing_ok = TRUE
    /\ overlapped = FALSE
    /\ lj = DefaultJudgeConfig
    /\ judge = NoJudge
    /\ cycle = NoCycle
    /\ earlier = <<>>
    /\ handler = NewHandler

NextTG ==
    \/ HTAttempt
    \/ HTOpSucceeds
    \/ \E e \in ErrorTypes : HTOpFails(e)

SpecTG == InitTG /\ [][NextTG]_vars

(***************************************************************************)
(* The engine: start/stop, the two trigger loops and the pipeline.         *)
(* Every action is the code a task runs between two suspension points: the *)
(* loop's sleep and the awaited calls of the judge, the content generator  *)
(* and the transport.  The wrapped operations catch every Exception        *)
(* themselves, so inside the pipeline _retry_with_backoff always takes its *)
(* success path on the first attempt.                                      *)
(***************************************************************************)
InFlight == {"judge", "content", "deliver"}

FullConfigs ==
    [max_daily_triggers : 1..MaxCap,
     mood_max_daily : {1},
     random_max_daily : {1},
     min_interval_hours : MinIntervalChoices,
     max_retry_attempts : {3},
     retry_delay_seconds : {5},
     stop_on_consecutive_failures : {10},
     error_cooldown_minutes : {30},
     safe_mode : {TRUE},
     fallback_enabled : {TRUE},
     use_llm_judge : BOOLEAN,
     enable_private : {TRUE},
     enable_group : {TRUE},
     target_private_whitelist : {<<>>, <<"A">>},
     target_groups : {<<>>}]

Init ==
    /\ config \in FullConfigs
    /\ global_config = NoAdapterLists
    /\ attempt = NoAttempt
    /\ now = 0
    /\ disk = <<>>
    /\ state = LoadState(disk, now)
    /\ op = NoOp
    /\ pre = NoPre
    /\ health = InitHealth
    /\ hret = "none"
    /\ errs_in_row = 0
    /\ retry = IdleRetry
    /\ is_running = FALSE
    /\ starter = "idle"
    /\ pc = Kinds2Pc
    /\ sent_ok = FALSE
    /\ last_rec = None
    /\ spacing_ok = TRUE
    /\ overlapped = FALSE
    /\ lj = DefaultJudgeConfig
    /\ judge = NoJudge
    /\ cycle = NoCycle
    /\ earlier = <<>>
    /\ handler = NewHandler

\* An exception raised in the loop body leaves the while statement: the
\* except clause outside it logs, and the loop function returns.
LoopRaised(k) == [pc EXCEPT ![k] = "ended"]

\* `continue` / end of the loop body: the while condition is read again.
Continue(k) == [pc EXCEPT ![k] = IF is_running THEN "sleep" ELSE "ended"]

\* _attempt_proactive_speak from its entry to its first suspension: health
\* gate, target selection, activity check, then the call of the judge or of
\* the content generator.  `active` is the answer of the activity check.
AttemptStart(h, t, active) ==
    LET hc == IsSystemHealthy(h, t)
        go == AttemptGate(hc.ret, GetAvailableTargets(config, global_config))
        h2 == RecordSuccess(BeginCall(hc.health))
    IN  IF go # "proceed"
        THEN [health |-> hc.health, next |-> "abort", retry |-> IdleRetry]
        ELSE IF active
        THEN [health |-> h2, next |-> "abort", retry |-> Returned("activity")]
        ELSE IF config.use_llm_judge
        THEN [health |-> BeginCall(h2), next |-> "judge",
              retry |-> Returned("activity")]
        ELSE [health |-> BeginCall(h2), next |-> "content",
              retry |-> Returned("activity")]

observers == <<pre, hret, errs_in_row, attempt>>

\* start_all_triggers: both tasks are created, then the caller awaits them.
\* (Started only when no loop of an earlier start is still alive.)
Start ==
    /\ ~is_running
    /\ starter = "idle"
    /\ \A k \in Kinds : pc[k] \in {"idle", "ended"}
    /\ is_running' = TRUE
    /\ starter' = "gathering"
    /\ pc' = [k \in Kinds |-> "new"]
    /\ retry' = IdleRetry
    /\ op' = NoOp
    /\ sent_ok' = FALSE
    /\ spacing_ok' = TRUE
    /\ UNCHANGED <<config, global_config, lj, judge, cycle, earlier, handler, now, state, disk, health, observers, last_rec,
                   overlapped>>

\* asyncio.gather returns: the finally clause of start_all_triggers.
StartReturns ==
    /\ starter = "gathering"
    /\ \A k \in Kinds : pc[k] = "ended"
    /\ is_running' = FALSE
    /\ starter' = "idle"
    /\ retry' = IdleRetry
    /\ op' = NoOp
    /\ sent_ok' = FALSE
    /\ spacing_ok' = TRUE
    /\ UNCHANGED <<config, global_config, lj, judge, cycle, earlier, handler, now, state, disk, health, observers, pc, last_rec,
                   overlapped>>

StopAllTriggers ==
    /\ is_running
    /\ is_running' = FALSE
    /\ retry' = IdleRetry
    /\ op' = NoOp
    /\ sent_ok' = FALSE
    /\ spacing_ok' = TRUE
    /\ UNCHANGED <<config, global_config, lj, judge, cycle, earlier, handler, now, state, disk, health, observers, starter, pc,
                   last_rec, overlapped>>

\* A created task runs for the first time, up to its first sleep.
LoopBegin(k) ==
    /\ pc[k] = "new"
    /\ pc' = Continue(k)
    /\ retry' = IdleRetry
    /\ op' = NoOp
    /\ sent_ok' = FALSE
    /\ spacing_ok' = TRUE
    /\ UNCHANGED <<config, global_config, lj, judge, cycle, earlier, handler, now, state, disk, health, observers, is_running,
                   starter, last_rec, overlapped>>

\* The sleep of a loop ends: rate-limit gate, (mood) detection and draw,
\* then the pipeline up to its first suspension.  `fire` is the outcome of
\* _detect_mood_change and of the probability draw (always true for random).
LoopWake(k, fire, active) ==
    /\ pc[k] = "sleep"
    /\ health.total_attempts + 4 <= EngineMaxCalls
    /\ k = "random" => fire
    /\ sent_ok' = FALSE
    /\ spacing_ok' = TRUE
    /\ IF CallRaises(state, now)
       THEN /\ op' = RaisedOp(k)
            /\ pc' = LoopRaised(k)
            /\ retry' = IdleRetry
            /\ UNCHANGED <<state, disk, health, overlapped>>
       ELSE /\ state' = CheckNewDay(state, now)
            /\ disk' = SaveOnNewDay(state, disk, now)
            /\ op' = CanTriggerOp(k, state, now)
            /\ IF CanTrigger(k, state, now) /\ fire
               THEN LET a == AttemptStart(health, now, active) IN
                    /\ health' = a.health
                    /\ retry' = a.retry
                    /\ pc' = IF a.next = "abort" THEN Continue(k)
                             ELSE [pc EXCEPT ![k] = a.next]
                    /\ overlapped' = (\/ overlapped
                                      \/ /\ a.next # "abort"
                                         /\ pc[OtherKind(k)] \in InFlight)
               ELSE /\ pc' = Continue(k)
                    /\ retry' = IdleRetry
                    /\ UNCHANGED <<health, overlapped>>
    /\ UNCHANGED <<config, global_config, lj, judge, cycle, earlier, handler, now, observers, is_running, starter, last_rec>>

\* The judge call returns; `speak` is the decision _llm_should_speak makes.
JudgeReturn(k, speak) ==
    /\ pc[k] = "judge"
    /\ IF speak
       THEN /\ health' = BeginCall(RecordSuccess(health))
            /\ pc' = [pc EXCEPT ![k] = "content"]
       ELSE /\ health' = RecordSuccess(health)
            /\ pc' = Continue(k)
    /\ retry' = Returned("judge")
    /\ op' = NoOp
    /\ sent_ok' = FALSE
    /\ spacing_ok' = TRUE
    /\ UNCHANGED <<config, global_config, lj, judge, cycle, earlier, handler, now, state, disk, observers, is_running, starter,
                   last_rec, overlapped>>

\* _generate_content returns (personalised, template or fallback text, never
\* empty); the transport is called.
ContentReturn(k) ==
    /\ pc[k] = "content"
    /\ health' = BeginCall(RecordSuccess(health))
    /\ pc' = [pc EXCEPT ![k] = "deliver"]
    /\ retry' = Returned("content")
    /\ op' = NoOp
    /\ sent_ok' = FALSE
    /\ spacing_ok' = TRUE
    /\ UNCHANGED <<config, global_config, lj, judge, cycle, earlier, handler, now, state, disk, observers, is_running, starter,
                   last_rec, overlapped>>

AfterSend_Always(k, success, st, t) == RecordTrigger(k, st, t)

\* Lines 272-283: the trigger is recorded only when the send reported success.
AfterSend(k, success, st, t) ==
    IF success THEN RecordTrigger(k, st, t) ELSE st

\* _send_proactive_message returns True or False (it catches every
\* Exception and returns False).
DeliverReturn(k, success) ==
    /\ pc[k] = "deliver"
    /\ health' = RecordSuccess(health)
    /\ state' = AfterSend(k, success, state, now)
    /\ disk' = IF state' # state THEN SaveState(state', disk) ELSE disk
    /\ retry' = Returned("send")
    /\ op' = IF state' # state THEN RecordOp(k) ELSE NoOp
    /\ sent_ok' = success
    /\ last_rec' = IF state' # state THEN now ELSE last_rec
    /\ spacing_ok' = (\/ state' = state
                      \/ overlapped
                      \/ last_rec = None
                      \/ now - last_rec >= config.min_interval_hours)
    /\ pc' = Continue(k)
    /\ UNCHANGED <<config, global_config, lj, judge, cycle, earlier, handler, now, observers, is_running, starter, overlapped>>

\* reset_error_state: clears the error fields and cancels both tasks; a task
\* suspended at an await ends with CancelledError.
ResetErrorState(sent) ==
    /\ sent => \E k \in Kinds : pc[k] = "deliver"
    /\ health' = ResetHealth(health)
    /\ pc' = [k \in Kinds |-> IF pc[k] = "idle" THEN "idle" ELSE "ended"]
    /\ retry' = IdleRetry
    /\ op' = NoOp
    /\ sent_ok' = sent
    /\ spacing_ok' = TRUE
    /\ UNCHANGED <<config, global_config, lj, judge, cycle, earlier, handler, now, state, disk, observers, is_running, starter,
                   last_rec, overlapped>>

Tick ==
    /\ now < EngineMaxTime
    /\ now' = now + 1
    /\ retry' = IdleRetry
    /\ op' = NoOp
    /\ sent_ok' = FALSE
    /\ spacing_ok' = TRUE
    /\ UNCHANGED <<config, global_config, lj, judge, cycle, earlier, handler, state, disk, health, observers, is_running, starter,
                   pc, last_rec, overlapped>>

\* The process is restarted: new ProactiveManager and TriggerController.
Restart ==
    /\ state' = LoadState(disk, now)
    /\ health' = InitHealth
    /\ is_running' = FALSE
    /\ starter' = "idle"
    /\ pc' = Kinds2Pc
    /\ retry' = IdleRetry
    /\ op' = NoOp
    /\ sent_ok' = FALSE
    /\ spacing_ok' = TRUE
    /\ UNCHANGED <<config, global_config, lj, judge, cycle, earlier, handler, now, disk, observers, last_rec, overlapped>>

Next ==
    \/ Start
    \/ StartReturns
    \/ StopAllTriggers
    \/ \E k \in Kinds : LoopBegin(k)
    \/ \E k \in Kinds, fire \in BOOLEAN, active \in BOOLEAN :
          LoopWake(k, fire, active)
    \/ \E k \in Kinds, speak \in BOOLEAN : JudgeReturn(k, speak)
    \/ \E k \in Kinds : ContentReturn(k)
    \/ \E k \in Kinds, success \in BOOLEAN : DeliverReturn(k, success)
    \/ \E sent \in BOOLEAN : ResetErrorState(sent)
    \/ Tick
    \/ Restart

Spec == Init /\ [][Next]_vars

(***************************************************************************)
(* Properties of the rate limiter (checked under SpecRL)                   *)
(***************************************************************************)
CountOf(k, st) ==
    IF k = "mood" THEN st.mood_triggers_today ELSE st.random_triggers_today

CapOf(k) ==
    IF k = "mood" THEN config.mood_max_daily ELSE config.random_max_daily

LastOf(k, st) ==
    IF k = "mood" THEN st.last_mood_trigger ELSE st.last_random_trigger

TooSoon(st, t) ==
    /\ st.last_trigger_time # None
    /\ t - st.last_trigger_time < config.min_interval_hours

\* C2: after a can_trigger_K call the returned value is false exactly when
\* the (rolled-forward) count of K has reached its cap, or the total has
\* reached the global cap, or a last trigger time exists and less than the
\* minimum interval has elapsed since; otherwise it is true.
C2_CanTriggerExactly ==
    op.name = "can_trigger" =>
        (op.ret = ~(\/ CountOf(op.kind, state) >= CapOf(op.kind)
                    \/ state.total_triggers_today >= config.max_daily_triggers
                    \/ TooSoon(state, now)))

C2_Witness ==
    /\ op.name = "can_trigger"
    /\ op.kind = "random"
    /\ ~op.ret
    /\ state.mood_triggers_today < config.random_max_daily
    /\ state.random_triggers_today >= config.random_max_daily
    /\ state.total_triggers_today < config.max_daily_triggers
    /\ ~TooSoon(state, now)

\* C5: a can_trigger or record call made when the clock's date differs from
\* the record's date leaves a record of the new date whose counts were zeroed
\* before the call evaluated: can_trigger then sees an empty record and
\* returns true (also when the old record was blocking on the global cap),
\* and record leaves exactly one trigger counted.
C5_DailyRollover ==
    (op.name # "none" /\ pre.today # Today(now)) =>
        /\ state.today = Today(now)
        /\ op.name = "can_trigger" =>
              /\ state.mood_triggers_today = 0
              /\ state.random_triggers_today = 0
              /\ state.total_triggers_today = 0
              /\ state.last_trigger_time = None
              /\ op.ret = TRUE
        /\ op.name = "record" =>
              /\ state.total_triggers_today = 1
              /\ CountOf(op.kind, state) = 1
              /\ CountOf(OtherKind(op.kind), state) = 0

C5_Witness ==
    /\ op.name = "can_trigger"
    /\ pre.today # Today(now)
    /\ pre.total_triggers_today >= config.max_daily_triggers
    /\ CountOf(op.kind, pre) < CapOf(op.kind)
    /\ op.ret = TRUE

\* The gate as the contract words it: no cap reached and not too soon.
Allowed(k, st, t) ==
    ~(\/ CountOf(k, st) >= CapOf(k)
      \/ st.total_triggers_today >= config.max_daily_triggers
      \/ TooSoon(st, t))

\* C7: within one day and at a fixed clock value, a record call can move the
\* answer of the gate (for either kind) only from allowed to rejected:
\* whatever is allowed on the record after the call was allowed before it.
C7_Monotonic ==
    (op.name = "record" /\ pre.today = Today(now)) =>
        \A k \in Kinds :
            Allowed(k, state, now) => Allowed(k, pre, now)

C7_Witness ==
    /\ op.name = "record"
    /\ pre.today = Today(now)
    /\ \E k \in Kinds : Allowed(k, pre, now) /\ ~Allowed(k, state, now)
    /\ \E k \in Kinds : Allowed(k, pre, now) /\ Allowed(k, state, now)

RolledBase == 
    IF pre.today = Today(now)
    THEN pre
    ELSE [today |-> Today(now),
          mood_triggers_today |-> 0,
          random_triggers_today |-> 0,
          total_triggers_today |-> 0,
          last_trigger_time |-> None,
          last_mood_trigger |-> None,
          last_random_trigger |-> None]

\* C8 (as stated): record_K_trigger adds one to the count of K and to the
\* total of the record it was called on, stamps both times, and leaves the
\* other kind's count and time as they were before the call.
C8_Original ==
    op.name = "record" =>
        /\ CountOf(op.kind, state) = CountOf(op.kind, pre) + 1
        /\ state.total_triggers_today = pre.total_triggers_today + 1
        /\ state.last_trigger_time = now
        /\ LastOf(op.kind, state) = now
        /\ CountOf(OtherKind(op.kind), state) = CountOf(OtherKind(op.kind), pre)
        /\ LastOf(OtherKind(op.kind), state) = LastOf(OtherKind(op.kind), pre)

\* C8 (amended): the same, relative to the record rolled forward to the
\* clock's date: a record dated another day is first replaced by a zeroed
\* record, a record of today is used as it is.
C8_RecordFrame ==
    op.name = "record" =>
        /\ state.today = Today(now)
        /\ CountOf(op.kind, state) = CountOf(op.kind, RolledBase) + 1
        /\ state.total_triggers_today = RolledBase.total_triggers_today + 1
        /\ state.last_trigger_time = now
        /\ LastOf(op.kind, state) = now
        /\ CountOf(OtherKind(op.kind), state) = CountOf(OtherKind(op.kind), RolledBase)
        /\ LastOf(OtherKind(op.kind), state) = LastOf(OtherKind(op.kind), RolledBase)

C8_Witness ==
    /\ op.name = "record"
    /\ op.kind = "mood"
    /\ pre.today = Today(now)
    /\ pre.random_triggers_today > 0
    /\ pre.mood_triggers_today > 0
    /\ state.last_random_trigger # None
    /\ state.last_random_trigger # now

(***************************************************************************)
(* Properties of the error tracking (checked under SpecHT)                 *)
(***************************************************************************)
\* C9: once the errors recorded in a row (no success, no reset since) have
\* reached stop_on_consecutive_failures, a call of _is_system_healthy returns
\* false, whatever time has passed since the last error.
C9_HardStopSticky ==
    errs_in_row >= config.stop_on_consecutive_failures =>
        IsSystemHealthy(health, now).ret = FALSE

\* C10: after exactly CooldownEntryThreshold _record_error calls in a row
\* (no success, no reset in between) the tracker is in cooldown, and as long
\* as less than error_cooldown_minutes have passed since the last error a
\* call of _is_system_healthy returns false and changes nothing.
C10_CooldownEntry ==
    (/\ errs_in_row = CooldownEntryThreshold
     /\ health.last_error_time # None
     /\ now < health.last_error_time + config.error_cooldown_minutes) =>
        /\ health.is_in_cooldown
        /\ IsSystemHealthy(health, now).ret = FALSE
        /\ IsSystemHealthy(health, now).health = health
        /\ hret # "healthy"

C10_Witness ==
    /\ errs_in_row = CooldownEntryThreshold
    /\ health.is_in_cooldown
    /\ health.total_successes > 0
    /\ now > health.last_error_time
    /\ now < health.last_error_time + config.error_cooldown_minutes
    /\ hret = "unhealthy"

ErrorTotal(h) == h.error_types["TimeoutError"] + h.error_types["ValueError"]

BetweenExecutions == retry.pc \in {"idle", "returned"}

\* C11: a step in which _record_success is called while the tracker is in
\* cooldown leaves consecutive_failures at zero and the cooldown flag cleared,
\* adds exactly one to total_successes, and a call of _is_system_healthy
\* made right after it returns true, whatever time is left of the cooldown.
C11_EarlyRelease ==
    [][(/\ retry.pc = "calling"
        /\ retry'.result = "value"
        /\ health.is_in_cooldown) =>
           /\ health'.consecutive_failures = 0
           /\ ~health'.is_in_cooldown
           /\ health'.total_successes = health.total_successes + 1
           /\ IsSystemHealthy(health', now').ret = TRUE
      ]_vars

\* Five errors and one success in six invocations, no failure left counted
\* and the cooldown duration not yet over: the success came fifth-error-last
\* and ended the cooldown early.
C11_Witness ==
    /\ retry.pc = "returned"
    /\ retry.result = "value"
    /\ health.total_attempts = CooldownEntryThreshold + 1
    /\ health.total_successes = 1
    /\ ErrorTotal(health) = CooldownEntryThreshold
    /\ health.consecutive_failures = 0
    /\ ~health.is_in_cooldown
    /\ health.last_error_time # None
    /\ now < health.last_error_time + config.error_cooldown_minutes
    /\ CooldownEntryThreshold < config.stop_on_consecutive_failures

\* C12: while the tracker is in cooldown a last error time exists; a call of
\* _is_system_healthy made less than error_cooldown_minutes after it returns
\* false and changes nothing, and a call made at or after that instant
\* clears the flag, zeroes consecutive_failures, changes nothing else and
\* returns true.  A call that returned true has left the cooldown flag clear.
C12_CooldownExpiry ==
    /\ health.is_in_cooldown =>
          /\ health.last_error_time # None
          /\ IF now < health.last_error_time + config.error_cooldown_minutes
             THEN /\ IsSystemHealthy(health, now).ret = FALSE
                  /\ IsSystemHealthy(health, now).health = health
             ELSE /\ IsSystemHealthy(health, now).ret = TRUE
                  /\ IsSystemHealthy(health, now).health =
                         [health EXCEPT !.is_in_cooldown = FALSE,
                                        !.consecutive_failures = 0]
    /\ hret = "healthy" => ~health.is_in_cooldown
    /\ (hret = "unhealthy" /\ health.is_in_cooldown) =>
          now < health.last_error_time + config.error_cooldown_minutes

C12_Witness ==
    /\ hret = "healthy"
    /\ errs_in_row = CooldownEntryThreshold
    /\ health.consecutive_failures = 0
    /\ ~health.is_in_cooldown
    /\ health.last_error_time # None
    /\ now = health.last_error_time + config.error_cooldown_minutes

\* C13: between two executions of the retry wrapper, with safe_mode on, at
\* least one attempt made and total_successes / total_attempts below 0.3,
\* _is_system_healthy returns false; with safe_mode off, a tracker that is
\* neither in cooldown nor at the hard-stop threshold is healthy whatever
\* the success rate is.
C13_SafeModeFloor ==
    /\ (/\ BetweenExecutions
        /\ config.safe_mode
        /\ health.total_attempts >= 1
        /\ 10 * health.total_successes < 3 * health.total_attempts) =>
           IsSystemHealthy(health, now).ret = FALSE
    /\ (/\ ~config.safe_mode
        /\ ~health.is_in_cooldown
        /\ health.consecutive_failures < config.stop_on_consecutive_failures) =>
           IsSystemHealthy(health, now).ret = TRUE

\* C14: between two executions, when failures are counted but fewer than
\* stop_on_consecutive_failures, and error_cooldown_minutes have passed since
\* the last recorded error (no error, success or reset since), a call of
\* _is_system_healthy returns true.
C14_SelfHealing ==
    (/\ BetweenExecutions
     /\ health.last_error_time # None
     /\ health.consecutive_failures > 0
     /\ health.consecutive_failures < config.stop_on_consecutive_failures
     /\ now >= health.last_error_time + config.error_cooldown_minutes) =>
        IsSystemHealthy(health, now).ret = TRUE

\* C15: a step of reset_error_state (the only step that takes the last error
\* time back to None) leaves every error tracking field, the lifetime
\* attempt and success counters included, at its initial value.
C15_ResetClearsAll ==
    [][(health.last_error_time # None /\ health'.last_error_time = None) =>
           health' = InitHealth
      ]_vars

(***************************************************************************)
(* Properties of the retry wrapper (checked under SpecRX)                  *)
(***************************************************************************)
\* C16: an execution whose operation raised on every call but the last
\* returns the operation's value, has invoked the operation exactly once more
\* than it raised (max_retry_attempts times when it raised
\* max_retry_attempts - 1 times), and has made no _record_error call; no
\* _record_error call is made while the execution is still under way.
C16_SuccessAfterFailures ==
    /\ (retry.pc = "returned" /\ retry.fails < retry.calls) =>
          /\ retry.result = "value"
          /\ retry.calls = retry.fails + 1
          /\ retry.calls = retry.attempt
          /\ retry.errors = 0
    /\ (retry.pc = "returned" /\ retry.fails = config.max_retry_attempts - 1) =>
          /\ retry.result = "value"
          /\ retry.calls = config.max_retry_attempts
    /\ retry.pc \in {"calling", "sleeping"} => retry.errors = 0

C16_Witness ==
    /\ retry.pc = "returned"
    /\ retry.result = "value"
    /\ config.max_retry_attempts = 3
    /\ retry.fails = 2
    /\ retry.calls = 3
    /\ health.consecutive_failures = 0
    /\ ErrorTotal(health) = 0

\* C17 (as stated): an execution whose operation raised on all
\* max_retry_attempts calls has made exactly one _record_error call and
\* returned None.
C17_Original ==
    (retry.pc = "returned" /\ retry.fails = config.max_retry_attempts) =>
        /\ retry.calls = config.max_retry_attempts
        /\ retry.errors = 1
        /\ retry.result = "None"

\* C17 (amended): such an execution has made exactly one _record_error call;
\* it returned None when fallback_enabled is set (the default), and raised
\* the last error to its caller when fallback_enabled is off.
C17_Exhaustion ==
    (retry.pc = "returned" /\ retry.fails = config.max_retry_attempts) =>
        /\ retry.calls = config.max_retry_attempts
        /\ retry.errors = 1
        /\ config.fallback_enabled => retry.result = "None"
        /\ ~config.fallback_enabled => retry.result = "raised"

C17_Witness ==
    /\ retry.pc = "returned"
    /\ config.fallback_enabled
    /\ config.max_retry_attempts = 3
    /\ retry.fails = 3
    /\ retry.errors = 1
    /\ retry.result = "None"
    /\ ErrorTotal(health) = 1

(***************************************************************************)
(* Properties of the gates of an attempt (checked under SpecHT and SpecTG) *)
(***************************************************************************)
\* C19: a step that enters _attempt_proactive_speak while _is_system_healthy
\* is false ends at the health gate: no target is selected, no operation is
\* handed to the retry wrapper, and the error tracking fields, the record of
\* the TriggerController and its file are as they were before the step.
C19_HealthGate ==
    [][(attempt'.outcome # "none" /\ ~IsSystemHealthy(health, now).ret) =>
           /\ attempt'.outcome = "unhealthy"
           /\ attempt'.targets = <<>>
           /\ hret' = "unhealthy"
           /\ retry'.pc = "idle"
           /\ health' = health
           /\ state' = state
           /\ disk' = disk
      ]_vars

C19_Witness ==
    /\ attempt.outcome = "unhealthy"
    /\ health.is_in_cooldown
    /\ health.total_successes > 0
    /\ retry.pc = "idle"

\* The allow-list of the adapter: its list when the list is a whitelist.
AdapterAllowList(tag) ==
    IF tag = "private"
    THEN IF global_config.private_list_type = "whitelist"
         THEN global_config.private_list ELSE <<>>
    ELSE IF global_config.group_list_type = "whitelist"
         THEN global_config.group_list ELSE <<>>

PluginAllowList(tag) ==
    IF tag = "private" THEN config.target_private_whitelist
    ELSE config.target_groups

PoolEnabled(tag) ==
    IF tag = "private" THEN config.enable_private ELSE config.enable_group

\* The ids a pool is resolved to, as the contract words it.
PoolIds(tag) ==
    IF ~PoolEnabled(tag) THEN <<>>
    ELSE IF PluginAllowList(tag) # <<>> THEN PluginAllowList(tag)
    ELSE IF AdapterAllowList(tag) # <<>> THEN AdapterAllowList(tag)
    ELSE <<>>

Members(seq) == {seq[i] : i \in 1..Len(seq)}

PoolMembers(tag) == {<<tag, id>> : id \in Members(PoolIds(tag))}

\* C20: the targets built by an attempt that passed the health gate are the
\* private pool followed by the group pool, each enabled pool being the
\* plugin allow-list if it is not empty, else the adapter allow-list if it is
\* not empty, else empty (a disabled pool is empty); as a set they are the
\* union of the two pools.  With no target the attempt ends there and hands
\* nothing to the retry wrapper; with a target it goes on to the activity
\* check.
C20_TargetPools ==
    /\ attempt.outcome \in {"no_targets", "proceed"} =>
          /\ Members(attempt.targets) =
                 PoolMembers("private") \cup PoolMembers("group")
          /\ Len(attempt.targets) =
                 Len(PoolIds("private")) + Len(PoolIds("group"))
          /\ \A i \in 1..Len(PoolIds("private")) :
                 attempt.targets[i] = <<"private", PoolIds("private")[i]>>
          /\ \A i \in 1..Len(PoolIds("group")) :
                 attempt.targets[Len(PoolIds("private")) + i] =
                    <<"group", PoolIds("group")[i]>>
          /\ (attempt.outcome = "no_targets") = (attempt.targets = <<>>)
    /\ attempt.outcome = "no_targets" => retry.pc = "idle"
    /\ attempt.outcome = "proceed" =>
          /\ retry.pc = "calling"
          /\ retry.operation = "activity"

C20_Witness ==
    /\ attempt.outcome = "proceed"
    /\ config.enable_private
    /\ config.enable_group
    /\ config.target_private_whitelist = <<"A">>
    /\ AdapterAllowList("private") = <<"B", "C">>
    /\ config.target_groups = <<>>
    /\ AdapterAllowList("group") = <<"B", "C">>
    /\ attempt.targets =
          << <<"private", "A">>, <<"group", "B">>, <<"group", "C">> >>

(***************************************************************************)
(* Properties of the engine (checked under Spec)                           *)
(***************************************************************************)
\* C1: with both loops running against the one TriggerController, the daily
\* counters never exceed their caps: the total stays within
\* max_daily_triggers and each kind within its own cap.
C1_CapsRespected ==
    /\ state.total_triggers_today <= config.max_daily_triggers
    /\ state.mood_triggers_today <= config.mood_max_daily
    /\ state.random_triggers_today <= config.random_max_daily

\* C3: as long as no two pipeline attempts have been in flight together, a
\* trigger is never recorded less than min_interval_hours after the trigger
\* recorded before it, also across a day rollover or a restart.
C3_MinSpacing == spacing_ok

\* C4: the record of the TriggerController changes to anything but a zeroed
\* record only in the step in which the delivery stage of the same attempt
\* reported success; a step that ends an attempt in any other way (abort at
\* a stage, failed delivery, cancellation) leaves the record unchanged.
C4_RecordOnlyAfterDelivery ==
    [][/\ (state' # state /\ state' # CreateNewDayState(Today(now))) =>
              /\ sent_ok'
              /\ op'.name = "record"
              /\ pc[op'.kind] = "deliver"
              /\ pc'[op'.kind] \in {"sleep", "ended"}
              /\ CountOf(op'.kind, state') = CountOf(op'.kind, CheckNewDay(state, now)) + 1
       /\ \A k \in Kinds :
              (/\ pc[k] \in InFlight
               /\ pc'[k] \in {"sleep", "ended"}
               /\ ~sent_ok') => state' = state
      ]_vars

C4_Witness ==
    /\ sent_ok
    /\ op.name = "record"
    /\ op.kind = "mood"
    /\ state.mood_triggers_today = 1
    /\ pc["random"] = "deliver"

\* C6: a gate check made when the total of today has reached
\* max_daily_triggers rejects, for either kind and whatever that kind's own
\* count is, and the loop starts no pipeline attempt.
C6_GlobalCapGates ==
    (/\ op.name = "can_trigger"
     /\ state.total_triggers_today >= config.max_daily_triggers) =>
        /\ ~op.ret
        /\ pc[op.kind] \notin InFlight

C6_Witness ==
    /\ op.name = "can_trigger"
    /\ op.kind = "random"
    /\ ~op.ret
    /\ config.min_interval_hours = 0
    /\ state.mood_triggers_today = 1
    /\ state.random_triggers_today = 0
    /\ state.random_triggers_today < config.random_max_daily
    /\ state.total_triggers_today = config.max_daily_triggers

\* C18: when the execution of the delivery stage has returned and the
\* transport did not accept the message (it raised, or reported that nothing
\* was sent), that execution has called _record_error and has not called
\* _record_success, and a failure is counted.
C18_FailedDeliveryIsFailure ==
    (/\ retry.pc = "returned"
     /\ retry.operation = "send"
     /\ ~sent_ok) =>
        /\ retry.errors = 1
        /\ retry.successes = 0
        /\ health.consecutive_failures > 0

(***************************************************************************)
(* The rate limiter constructed over any state file (SpecLD)               *)
(***************************************************************************)
\* What trigger_state.json can hold when the controller is constructed at
\* time t: nothing, unreadable text, an object with only a date (of today or
\* of yesterday), or a complete record written today.
DurableFiles(t) ==
    { <<>>, <<GarbageFile>>, <<PartialFile(Today(t))>>,
      <<PartialFile(Today(t) - 1)>>, <<CreateNewDayState(Today(t))>> }

LDConfigs ==
    {c \in RLConfigs : /\ c.max_daily_triggers = MaxCap
                       /\ c.mood_max_daily = MaxCap
                       /\ c.random_max_daily = 1}

InitLD ==
    /\ config \in LDConfigs
    /\ global_config = NoAdapterLists
    /\ attempt = NoAttempt
    /\ now = 0
    /\ disk \in DurableFiles(now)
    /\ state = LoadState(disk, now)
    /\ op = NoOp
    /\ pre = NoPre
    /\ health = InitHealth
    /\ hret = "none"
    /\ errs_in_row = 0
    /\ retry = IdleRetry
    /\ is_running = FALSE
    /\ starter = "idle"
    /\ pc = Kinds2Pc
    /\ sent_ok = FALSE
    /\ last_rec = None
    /\ spacing_ok = TRUE
    /\ overlapped = FALSE
    /\ lj = DefaultJudgeConfig
    /\ judge = NoJudge
    /\ cycle = NoCycle
    /\ earlier = <<>>
    /\ handler = NewHandler

SpecLD == InitLD /\ [][NextRL]_vars

(***************************************************************************)
(* The trigger loops started over any state file (SpecLP)                  *)
(***************************************************************************)
LPConfigs ==
    {c \in FullConfigs : /\ c.max_daily_triggers = MaxCap
                         /\ c.min_interval_hours = 0
                         /\ c.target_private_whitelist = <<"A">>}

InitLP ==
    /\ config \in LPConfigs
    /\ global_config = NoAdapterLists
    /\ attempt = NoAttempt
    /\ now = 0
    /\ disk \in DurableFiles(now)
    /\ state = LoadState(disk, now)
    /\ op = NoOp
    /\ pre = NoPre
    /\ health = InitHealth
    /\ hret = "none"
    /\ errs_in_row = 0
    /\ retry = IdleRetry
    /\ is_running = FALSE
    /\ starter = "idle"
    /\ pc = Kinds2Pc
    /\ sent_ok = FALSE
    /\ last_rec = None
    /\ spacing_ok = TRUE
    /\ overlapped = FALSE
    /\ lj = DefaultJudgeConfig
    /\ judge = NoJudge
    /\ cycle = NoCycle
    /\ earlier = <<>>
    /\ handler = NewHandler

NextLP ==
    \/ Start
    \/ StartReturns
    \/ StopAllTriggers
    \/ \E k \in Kinds : LoopBegin(k)
    \/ \E k \in Kinds, fire \in BOOLEAN, active \in BOOLEAN :
          LoopWake(k, fire, active)
    \/ \E k \in Kinds, speak \in BOOLEAN : JudgeReturn(k, speak)
    \/ \E k \in Kinds : ContentReturn(k)
    \/ \E k \in Kinds, success \in BOOLEAN : DeliverReturn(k, success)
    \/ \E sent \in BOOLEAN : ResetErrorState(sent)
    \/ Tick

SpecLP == InitLP /\ [][NextLP]_vars

(***************************************************************************)
(* _llm_should_speak over bounded replies (SpecJD)                         *)
(***************************************************************************)
ReplyChars ==
    {"U662F", "U5426", "U4E0D", "U53EF", "U4EE5", "U80FD", "U5427",
     "n", "o", "k", "N", " "}

Replies == UNION {[1..n -> ReplyChars] : n \in 0..MaxReplyLen}

Draws == {55, 65, 75, 90}

JDConfigs ==
    [failure_allow_rate : {50},
     ambiguous_allow_rate_mood : {60, 80},
     ambiguous_allow_rate_random : {50},
     positive_bias : BOOLEAN]

\* What the llm_api calls can do: answer with any reply, or fail (an import
\* error, another exception, no model, ok = False).
JudgeInputs ==
    [fault : {"none"}, model : {TRUE}, ok : {TRUE}, response : Replies]
    \cup [fault : {"ImportError", "Exception"}, model : {TRUE}, ok : {TRUE},
          response : {<<>>}]
    \cup [fault : {"none"}, model : {FALSE}, ok : {TRUE}, response : {<<>>}]
    \cup [fault : {"none"}, model : {TRUE}, ok : {FALSE},
          response : {<<>>, <<"U662F">>}]

InitJD ==
    /\ config \in {c \in RLConfigs : /\ c.max_daily_triggers = 1
                                     /\ c.mood_max_daily = 1
                                     /\ c.random_max_daily = 1
                                     /\ c.min_interval_hours = 0}
    /\ global_config = NoAdapterLists
    /\ attempt = NoAttempt
    /\ now = 0
    /\ disk = <<>>
    /\ state = LoadState(disk, now)
    /\ op = NoOp
    /\ pre = NoPre
    /\ health = InitHealth
    /\ hret = "none"
    /\ errs_in_row = 0
    /\ retry = IdleRetry
    /\ is_running = FALSE
    /\ starter = "idle"
    /\ pc = Kinds2Pc
    /\ sent_ok = FALSE
    /\ last_rec = None
    /\ spacing_ok = TRUE
    /\ overlapped = FALSE
    /\ lj \in JDConfigs
    /\ \E i \in JudgeInputs :
          judge = [NoJudge EXCEPT !.fault = i.fault, !.model = i.model,
                                  !.ok = i.ok, !.response = i.response]
    /\ cycle = NoCycle
    /\ earlier = <<>>
    /\ handler = NewHandler

\* _llm_should_speak is called for a trigger of kind k; d is its random draw.
JDCall(k, d) ==
    /\ judge.kind = "none"
    /\ LET v == LLMShouldSpeak(lj, k, judge.fault, judge.model, judge.ok,
                               judge.response, d)
       IN  judge' = [judge EXCEPT !.kind = k, !.draw = d,
                                  !.branch = v.branch, !.rate = v.rate,
                                  !.speak = v.speak]
    /\ UNCHANGED <<config, global_config, now, state, disk, op, pre, health,
                   hret, errs_in_row, retry, attempt, is_running, starter, pc,
                   sent_ok, last_rec, spacing_ok, overlapped, lj, cycle,
                   earlier, handler>>

NextJD == \E k \in Kinds, d \in Draws : JDCall(k, d)

SpecJD == InitJD /\ [][NextJD]_vars

(***************************************************************************)
(* One attempt followed through its stages, each stage an operation that   *)
(* can raise inside _retry_with_backoff (SpecPL)                           *)
(***************************************************************************)
PLDraws == {10, 40, 90}

PLConfigs ==
    [max_daily_triggers : {MaxCap},
     mood_max_daily : {MaxCap},
     random_max_daily : {MaxCap},
     min_interval_hours : {0},
     max_retry_attempts : {1, 2},
     retry_delay_seconds : {5},
     stop_on_consecutive_failures : {10},
     error_cooldown_minutes : {30},
     safe_mode : BOOLEAN,
     fallback_enabled : BOOLEAN,
     use_llm_judge : BOOLEAN,
     enable_private : {TRUE},
     enable_group : {TRUE},
     target_private_whitelist : {<<"A">>},
     target_groups : {<<>>}]

PLJudgeConfigs ==
    [failure_allow_rate : {50, 80},
     ambiguous_allow_rate_mood : {60},
     ambiguous_allow_rate_random : {50},
     positive_bias : {TRUE}]

InitPL ==
    /\ config \in PLConfigs
    /\ global_config = NoAdapterLists
    /\ attempt = NoAttempt
    /\ now = 0
    /\ disk = <<>>
    /\ state = LoadState(disk, now)
    /\ op = NoOp
    /\ pre = NoPre
    /\ health = InitHealth
    /\ hret = "none"
    /\ errs_in_row = 0
    /\ retry = IdleRetry
    /\ is_running = FALSE
    /\ starter = "idle"
    /\ pc = Kinds2Pc
    /\ sent_ok = FALSE
    /\ last_rec = None
    /\ spacing_ok = TRUE
    /\ overlapped = FALSE
    /\ lj \in PLJudgeConfigs
    /\ judge = NoJudge
    /\ cycle = NoCycle
    /\ earlier = <<>>
    /\ handler = NewHandler

plFrame == <<config, global_config, now, pre, is_running, starter, pc,
             last_rec, spacing_ok, overlapped, lj, judge, earlier,
             handler>>

\* The stage that follows a stage of _attempt_proactive_speak.
NextStage(stage) ==
    IF stage = "activity"
    THEN IF config.use_llm_judge THEN "judge" ELSE "content"
    ELSE IF stage = "judge" THEN "content"
    ELSE "send"

StageGo_ActiveContinues(stage, result, v, d) ==
    IF stage = "activity"
    THEN IF result = "value" THEN TRUE
         ELSE IF result = "None" THEN TRUE
         ELSE ~config.safe_mode
    ELSE IF stage = "judge"
    THEN IF result = "value" THEN v
         ELSE IF result = "None" THEN d < JudgeUnknownRate
         ELSE ~config.safe_mode
    ELSE IF stage = "content"
    THEN result = "value" /\ v
    ELSE FALSE

StageGo_EmptyContentPasses(stage, result, v, d) ==
    IF stage = "activity"
    THEN IF result = "value" THEN ~v
         ELSE IF result = "None" THEN TRUE
         ELSE ~config.safe_mode
    ELSE IF stage = "judge"
    THEN IF result = "value" THEN v
         ELSE IF result = "None" THEN d < JudgeUnknownRate
         ELSE ~config.safe_mode
    ELSE IF stage = "content"
    THEN result = "value"
    ELSE FALSE

StageGo_ContentUnchecked(stage, result, v, d) ==
    IF stage = "activity"
    THEN IF result = "value" THEN ~v
         ELSE IF result = "None" THEN TRUE
         ELSE ~config.safe_mode
    ELSE IF stage = "judge"
    THEN IF result = "value" THEN v
         ELSE IF result = "None" THEN d < JudgeUnknownRate
         ELSE ~config.safe_mode
    ELSE stage = "content"

\* Whether the attempt goes on to its next stage when the _retry_with_backoff
\* execution of a stage has ended.  result: "value", "None" or "raised";
\* v: the value returned (user is active / should speak / content is not
\* empty); d: the random draw of the judgment stage.
StageGo(stage, result, v, d) ==
    IF stage = "activity"
    THEN IF result = "value" THEN ~v
         ELSE IF result = "None" THEN TRUE
         ELSE ~config.safe_mode
    ELSE IF stage = "judge"
    THEN IF result = "value" THEN v
         ELSE IF result = "None" THEN d < JudgeUnknownRate
         ELSE ~config.safe_mode
    ELSE IF stage = "content"
    THEN result = "value" /\ v
    ELSE FALSE

\* _attempt_proactive_speak is called for a trigger of kind k: health gate,
\* target selection, then the activity check enters _retry_with_backoff.
PLAttempt(k) ==
    /\ cycle.end # "running"
    /\ health.total_attempts + 4 * config.max_retry_attempts <= MaxAttempts
    /\ CheckNewDay(state, now).total_triggers_today < MaxCount
    /\ LET hc == IsSystemHealthy(health, now)
           tg == IF hc.ret THEN GetAvailableTargets(config, global_config)
                 ELSE <<>>
           go == AttemptGate(hc.ret, GetAvailableTargets(config, global_config))
       IN  /\ hret' = HealthyName(hc.ret)
           /\ attempt' = [outcome |-> go, targets |-> tg]
           /\ IF go = "proceed"
              THEN /\ health' = BeginCall(hc.health)
                   /\ retry' = RetryBegin("activity")
                   /\ cycle' = [NoCycle EXCEPT !.kind = k, !.end = "running"]
              ELSE /\ health' = hc.health
                   /\ retry' = Settle(retry)
                   /\ cycle' = [NoCycle EXCEPT !.kind = k, !.end = "returned"]
    /\ op' = NoOp
    /\ sent_ok' = FALSE
    /\ UNCHANGED <<state, disk, errs_in_row, plFrame>>

\* The _retry_with_backoff execution r of a stage has ended (h: the error
\* tracking fields it leaves): the code of the stage that follows the await,
\* up to the await of the next stage or to the return of the attempt.
StageEnds(r, h, v, d) ==
    LET stage == r.operation
        go == StageGo(stage, r.result, v, d)
        unknown == stage = "judge" /\ r.result = "None"
        ended == IF r.result # "value" THEN r.result
                 ELSE IF v THEN "true" ELSE "false"
    IN  /\ state' = IF stage = "send" /\ r.result = "value"
                    THEN AfterSend(cycle.kind, v, state, now)
                    ELSE state
        /\ disk' = IF state' # state THEN SaveState(state', disk) ELSE disk
        /\ op' = IF state' # state THEN RecordOp(cycle.kind) ELSE NoOp
        /\ sent_ok' = (stage = "send" /\ r.result = "value" /\ v)
        /\ IF go
           THEN /\ health' = BeginCall(h)
                /\ retry' = RetryBegin(NextStage(stage))
           ELSE /\ health' = h
                /\ retry' = r
        /\ cycle' = [cycle EXCEPT
              !.failed = IF r.result = "value" THEN @ ELSE @ \cup {stage},
              !.end = IF go THEN "running" ELSE "returned",
              !.sent = sent_ok',
              !.recorded = (state' # state),
              !.draw = IF unknown THEN d ELSE @,
              !.judged = IF unknown THEN (IF go THEN "speak" ELSE "skip")
                         ELSE @,
              !.trail = Append(@, <<stage, ended>>)]

\* The operation awaited by _retry_with_backoff returns the value v.
PLOpReturns(v, d) ==
    /\ cycle.end = "running"
    /\ retry.pc = "calling"
    /\ errs_in_row' = 0
    /\ StageEnds(RetrySucceeds(retry), RecordSuccess(health), v, d)
    /\ UNCHANGED <<hret, attempt, plFrame>>

\* The operation awaited by _retry_with_backoff raises e.
PLOpRaises(e, d) ==
    /\ cycle.end = "running"
    /\ retry.pc = "calling"
    /\ LET r == RetryFails(retry) IN
       IF r.pc = "sleeping"
       THEN /\ retry' = r
            /\ op' = NoOp
            /\ sent_ok' = FALSE
            /\ UNCHANGED <<health, state, disk, errs_in_row, cycle>>
       ELSE /\ errs_in_row' = errs_in_row + 1
            /\ StageEnds(r, RecordError(health, e, now), FALSE, d)
    /\ UNCHANGED <<hret, attempt, plFrame>>

NextPL ==
    \/ \E k \in Kinds : PLAttempt(k)
    \/ \E v \in BOOLEAN, d \in PLDraws : PLOpReturns(v, d)
    \/ \E e \in ErrorTypes, d \in PLDraws : PLOpRaises(e, d)
    \/ HTSleepDone

SpecPL == InitPL /\ [][NextPL]_vars

(***************************************************************************)
(* Stage failures of an attempt (checked under SpecPL)                     *)
(***************************************************************************)
\* C27: a stage failure never leaves _attempt_proactive_speak as an
\* exception, whatever fallback_enabled and safe_mode are: when an execution
\* has ended with None or with a raised error and no further stage was
\* entered, the attempt has returned.  A failure of content generation or of
\* delivery ends the attempt with no message sent and no trigger recorded; a
\* failure of the activity check or of the judgment ends it in the same way
\* when the error was raised under safe_mode, and otherwise is replaced by a
\* fallback decision with which the attempt may go on and send.  A trigger is
\* recorded only with a message sent.
C27_FailuresContained ==
    /\ cycle.end \in {"none", "running", "returned"}
    /\ (retry.pc = "returned" /\ retry.result \in {"None", "raised"})
          => cycle.end = "returned"
    /\ (cycle.failed \cap {"content", "send"} # {})
          => /\ cycle.end = "returned"
             /\ ~cycle.sent
             /\ ~cycle.recorded
             /\ ~sent_ok
             /\ op.name # "record"
    /\ (/\ cycle.failed \cap {"activity", "judge"} # {}
        /\ ~config.fallback_enabled
        /\ config.safe_mode)
          => /\ cycle.end = "returned"
             /\ ~cycle.sent
             /\ ~cycle.recorded
    /\ cycle.recorded => cycle.sent

C27_Witness ==
    /\ ~config.fallback_enabled
    /\ ~config.safe_mode
    /\ cycle.failed = {"activity", "judge", "send"}
    /\ cycle.end = "returned"
    /\ retry.pc = "returned"
    /\ retry.result = "raised"
    /\ ~cycle.sent

\* C27 as stated: when a stage of an attempt has failed, the attempt ends
\* with no message sent and no trigger recorded.
C27_Original ==
    (cycle.end = "returned" /\ cycle.failed # {})
       => (~cycle.sent /\ ~cycle.recorded)

\* The stages invoked so far in the attempt that `cycle` follows.
Invoked ==
    {cycle.trail[i][1] : i \in 1..Len(cycle.trail)}
       \cup (IF cycle.end = "running" THEN {retry.operation} ELSE {})

\* C31: when the activity check reports the target active, the attempt
\* returns there: no judgment, content generation or delivery is invoked and
\* the rate limiter records nothing.  When _retry_with_backoff returns None
\* for the activity check (or the check reports the target inactive), the
\* attempt goes on to its next stage.
C31_ActivityGate ==
    \A i \in 1..Len(cycle.trail) :
       cycle.trail[i][1] = "activity"
          => /\ i = 1
             /\ cycle.trail[i][2] = "true"
                   => /\ cycle.end = "returned"
                      /\ Invoked = {"activity"}
                      /\ ~cycle.sent
                      /\ ~cycle.recorded
                      /\ op.name # "record"
             /\ cycle.trail[i][2] \in {"None", "false"}
                   => NextStage("activity") \in Invoked

C31_Witness ==
    /\ cycle.trail # <<>>
    /\ cycle.trail[1] = <<"activity", "None">>
    /\ cycle.end = "returned"
    /\ cycle.sent
    /\ cycle.recorded

\* C32: when content generation gives no content (None from
\* _retry_with_backoff, a raised error, or an empty value), the attempt
\* returns there and the delivery is not invoked; a delivery is invoked only
\* after the content stage of the same attempt returned content.
C32_ContentGate ==
    /\ \A i \in 1..Len(cycle.trail) :
          (/\ cycle.trail[i][1] = "content"
           /\ cycle.trail[i][2] \in {"None", "raised", "false"})
             => /\ i = Len(cycle.trail)
                /\ cycle.end = "returned"
                /\ "send" \notin Invoked
                /\ ~cycle.sent
    /\ "send" \in Invoked
          => \E j \in 1..Len(cycle.trail) :
                cycle.trail[j] = <<"content", "true">>

C32_Witness ==
    /\ Len(cycle.trail) >= 2
    /\ cycle.trail[Len(cycle.trail)] = <<"content", "None">>
    /\ cycle.end = "returned"
    /\ "send" \notin Invoked

\* C30: when _retry_with_backoff returns None for the judgment stage, the
\* attempt goes on exactly when the random draw is below the configured
\* llm_judge.failure_allow_rate.
C30_UnknownUsesConfiguredRate ==
    cycle.judged # "none"
       => (cycle.judged = "speak") = (cycle.draw < lj.failure_allow_rate)

(***************************************************************************)
(* Reading of the judge's reply (checked under SpecJD)                     *)
(***************************************************************************)
\* The model service answered: _llm_should_speak reads the reply.
ReplyRead ==
    /\ judge.kind # "none"
    /\ judge.fault = "none"
    /\ judge.model
    /\ judge.ok
    /\ judge.response # <<>>

\* C28: a reply that contains no affirmative and no negative token but
\* contains a hedging token is decided, when positive_bias is on, by a draw
\* against the larger of the ambiguous allow rate configured for the trigger
\* kind and 0.7.
C28_PositiveBiasFloor ==
    LET r == ResponseLower(judge.response) IN
    (/\ ReplyRead
     /\ ~IsAffirmative(r)
     /\ ~IsNegative(r)
     /\ IsHedging(r)
     /\ lj.positive_bias)
       => /\ judge.branch = "ambiguous"
          /\ judge.rate = Max(AmbiguousRate(lj, judge.kind), PositiveBiasFloor)
          /\ judge.rate >= PositiveBiasFloor
          /\ judge.speak = (judge.draw < judge.rate)

C28_Witness ==
    /\ ReplyRead
    /\ judge.response = <<"U53EF", "U80FD">>
    /\ lj.positive_bias
    /\ judge.kind = "random"
    /\ AmbiguousRate(lj, judge.kind) = 50
    /\ judge.rate = 70
    /\ judge.draw = 65
    /\ judge.speak

\* C29: a reply that carries an affirmative token makes the attempt proceed,
\* a reply that carries a negative token makes it abort (it is never read as
\* proceed), and the random draw is used exactly when the reply carries
\* neither.
C29_Interpretation ==
    LET r == ResponseLower(judge.response) IN
    ReplyRead
       => /\ IsAffirmative(r) => judge.speak
          /\ IsNegative(r) => ~judge.speak
          /\ (judge.branch = "ambiguous")
                = (~IsAffirmative(r) /\ ~IsNegative(r))

(***************************************************************************)
(* Lifecycle of the loops (checked under SpecLP and Spec)                  *)
(***************************************************************************)
\* C21: an error raised during one wake cycle of a trigger loop does not end
\* the loop: while the engine is running, the loop that met the error is
\* asleep again, waiting for its next cycle.
C21_LoopSurvivesErrors ==
    [][(op'.name = "KeyError" /\ is_running')
          => pc'[op'.kind] = "sleep"]_vars

\* C22: once stop_all_triggers has cleared the run flag, no loop starts a new
\* _attempt_proactive_speak: a loop that was asleep when the stop arrived does
\* not enter the pipeline when it wakes.
C22_NoAttemptAfterStop ==
    [][\A k \in Kinds :
          (~is_running /\ pc[k] = "sleep") => pc'[k] \notin InFlight]_vars

\* C23: stop_all_triggers cancels the loop tasks: the sleep of a loop that
\* was asleep when the stop arrived is interrupted, so the statements after
\* the sleep (the rate-limiter gate of a wake cycle) are never run by it.
C23_StopInterruptsSleep ==
    [][\A k \in Kinds :
          (~is_running /\ pc[k] = "sleep")
             => ~(op'.name = "can_trigger" /\ op'.kind = k)]_vars

\* C24: cancellation never leaves an attempt half-recorded: a message has
\* been delivered by the step just taken exactly when that step recorded its
\* trigger in the rate limiter.
C24_NoHalfRecorded ==
    /\ sent_ok => op.name = "record"
    /\ op.name = "record" => sent_ok

C26_LoadNeverFails ==
    /\ WellFormed(state)
    /\ op.name # "KeyError"

(***************************************************************************)
(* The retry protocol (checked under SpecRX)                               *)
(***************************************************************************)
\* 1 + 2 + ... + n
Triangle(n) == (n * (n + 1)) \div 2

\* The back-off sleeps an execution has begun so far.
SleepsBegun ==
    IF retry.pc = "sleeping" THEN retry.attempt
    ELSE IF retry.attempt = 0 THEN 0
    ELSE retry.attempt - 1

\* C33: an execution of _retry_with_backoff invokes the operation at most
\* max_retry_attempts times, one invocation per pass, and not again after
\* the first success; after the k-th failed pass with k < max_retry_attempts
\* it sleeps retry_delay_seconds * k before pass k + 1, and after the last
\* failed pass it does not sleep.
C33_RetryProtocol ==
    /\ retry.calls <= config.max_retry_attempts
    /\ retry.calls = retry.attempt
    /\ retry.successes <= 1
    /\ retry.successes = 1
          => /\ retry.pc = "returned"
             /\ retry.result = "value"
             /\ retry.calls = retry.fails + 1
    /\ retry.pc = "sleeping"
          => /\ retry.attempt < config.max_retry_attempts
             /\ retry.fails = retry.attempt
             /\ retry.delay = config.retry_delay_seconds * retry.attempt
    /\ retry.slept = config.retry_delay_seconds * Triangle(SleepsBegun)
    /\ (retry.pc = "returned" /\ retry.result # "value")
          => /\ retry.fails = config.max_retry_attempts
             /\ retry.slept = config.retry_delay_seconds
                                 * Triangle(config.max_retry_attempts - 1)

C33_Witness ==
    /\ config.max_retry_attempts = 3
    /\ config.retry_delay_seconds = 2
    /\ retry.pc = "returned"
    /\ retry.result = "None"
    /\ retry.calls = 3
    /\ retry.delay = 4
    /\ retry.slept = 6

(***************************************************************************)
(* Attempt accounting with both loops running (checked under SpecLP)       *)
(***************************************************************************)
\* The loops that are suspended inside an operation awaited by
\* _retry_with_backoff.
Awaiting == {k \in Kinds : pc[k] \in InFlight}

\* C34: total_attempts is incremented when an operation is invoked, before
\* its outcome is known: every invocation still awaited and every success
\* recorded has been counted, so total_successes <= total_attempts in every
\* state, however the two loops interleave.
C34_AttemptAccounting ==
    /\ health.total_successes + Cardinality(Awaiting) <= health.total_attempts
    /\ health.total_successes <= health.total_attempts

C34_Witness ==
    /\ Awaiting = Kinds
    /\ health.total_successes >= 2
    /\ health.total_attempts = health.total_successes + 2

(***************************************************************************)
(* Consistency of the counters (checked under SpecRL)                      *)
(***************************************************************************)
\* C35: from a fresh record on, the record of the TriggerController always
\* has total_triggers_today = mood_triggers_today + random_triggers_today,
\* and last_trigger_time is None exactly when total_triggers_today = 0.
C35_CounterConsistency ==
    /\ state.total_triggers_today
          = state.mood_triggers_today + state.random_triggers_today
    /\ (state.last_trigger_time = None) = (state.total_triggers_today = 0)

C35_Witness ==
    /\ state.mood_triggers_today = 1
    /\ state.random_triggers_today = 2
    /\ state.total_triggers_today = 3
    /\ state.last_trigger_time = state.last_random_trigger
    /\ state.today = 1
    /\ op.name = "record"

(***************************************************************************)
(* Consistency of the cooldown flag (checked under SpecHT)                 *)
(***************************************************************************)
\* C36: is_in_cooldown is true exactly when consecutive_failures has reached
\* the cooldown-entry threshold (5), and is_in_cooldown implies that
\* last_error_time is set, across _record_error, _record_success, the expiry
\* of the cooldown in _is_system_healthy and reset_error_state.
C36_CooldownFlag ==
    /\ health.is_in_cooldown
          = (health.consecutive_failures >= CooldownEntryThreshold)
    /\ health.is_in_cooldown => health.last_error_time # None

C36_Witness ==
    /\ hret = "healthy"
    /\ ~health.is_in_cooldown
    /\ health.consecutive_failures = 0
    /\ health.last_error_time # None
    /\ health.total_successes = 0
    /\ ErrorTotal(health) >= CooldownEntryThreshold

(***************************************************************************)
(* start_all_triggers, stop_all_triggers and reset_error_state called in   *)
(* any order, with proactive speaking switched off by max_daily_triggers   *)
(* = 0 so that a wake cycle ends at its gate (SpecLC)                      *)
(***************************************************************************)
LCConfigs ==
    [max_daily_triggers : {0},
     mood_max_daily : {1},
     random_max_daily : {1},
     min_interval_hours : {0},
     max_retry_attempts : {3},
     retry_delay_seconds : {5},
     stop_on_consecutive_failures : {10},
     error_cooldown_minutes : {30},
     safe_mode : {TRUE},
     fallback_enabled : {TRUE},
     use_llm_judge : {TRUE},
     enable_private : {TRUE},
     enable_group : {TRUE},
     target_private_whitelist : {<<"A">>},
     target_groups : {<<>>}]

InitLC ==
    /\ config \in LCConfigs
    /\ global_config = NoAdapterLists
    /\ attempt = NoAttempt
    /\ now = 0
    /\ disk = <<>>
    /\ state = LoadState(disk, now)
    /\ op = NoOp
    /\ pre = NoPre
    /\ health = InitHealth
    /\ hret = "none"
    /\ errs_in_row = 0
    /\ retry = IdleRetry
    /\ is_running = FALSE
    /\ starter = "idle"
    /\ pc = Kinds2Pc
    /\ sent_ok = FALSE
    /\ last_rec = None
    /\ spacing_ok = TRUE
    /\ overlapped = FALSE
    /\ lj = DefaultJudgeConfig
    /\ judge = NoJudge
    /\ cycle = NoCycle
    /\ earlier = <<>>
    /\ handler = NewHandler

lcFrame == <<config, global_config, now, pre, health, hret, errs_in_row,
             attempt, last_rec, overlapped, lj, judge, cycle, handler>>

\* The management call made by the latest step (observer).
CallOp(name, created) == [name |-> name, kind |-> "none", ret |-> created]

\* start_all_triggers, up to its await of gather: nothing when is_running is
\* set; otherwise the flag is set and two tasks are created and stored in
\* mood_trigger_task / random_trigger_task, whatever became of the tasks
\* stored there before.  An earlier call that is still awaiting its own tasks
\* goes on awaiting them.
LCStart ==
    /\ op' = CallOp("start_all_triggers", ~is_running)
    /\ IF is_running
       THEN UNCHANGED <<is_running, starter, pc, earlier>>
       ELSE /\ starter = "gathering" => Len(earlier) < MaxEarlier
            /\ is_running' = TRUE
            /\ starter' = "gathering"
            /\ pc' = [k \in Kinds |-> "new"]
            /\ earlier' = IF starter = "gathering"
                          THEN Append(earlier,
                                      [mood |-> pc["mood"],
                                       random |-> pc["random"]])
                          ELSE earlier
    /\ retry' = IdleRetry
    /\ sent_ok' = FALSE
    /\ spacing_ok' = TRUE
    /\ UNCHANGED <<state, disk, lcFrame>>

\* stop_all_triggers
LCStop ==
    /\ op' = CallOp("stop_all_triggers", FALSE)
    /\ is_running' = FALSE
    /\ retry' = IdleRetry
    /\ sent_ok' = FALSE
    /\ spacing_ok' = TRUE
    /\ UNCHANGED <<state, disk, starter, pc, earlier, lcFrame>>

\* reset_error_state: the error fields are cleared and the tasks stored in
\* mood_trigger_task / random_trigger_task are cancelled.
LCResetErrorState ==
    /\ op' = CallOp("reset_error_state", FALSE)
    /\ health' = ResetHealth(health)
    /\ pc' = [k \in Kinds |-> IF pc[k] = "idle" THEN "idle" ELSE "ended"]
    /\ retry' = IdleRetry
    /\ sent_ok' = FALSE
    /\ spacing_ok' = TRUE
    /\ UNCHANGED <<config, global_config, now, pre, hret, errs_in_row,
                   attempt, last_rec, overlapped, lj, judge, cycle,
                   state, disk, is_running, starter, earlier, handler>>

\* A loop task of an earlier start call runs for the first time.
EarlierBegin(i, k) ==
    /\ i \in 1..Len(earlier)
    /\ earlier[i][k] = "new"
    /\ earlier' = [earlier EXCEPT
                     ![i][k] = IF is_running THEN "sleep" ELSE "ended"]
    /\ op' = NoOp
    /\ retry' = IdleRetry
    /\ sent_ok' = FALSE
    /\ spacing_ok' = TRUE
    /\ UNCHANGED <<state, disk, is_running, starter, pc, lcFrame>>

\* The sleep of a loop task of an earlier start call ends: the gate rejects
\* and the while condition is read again.
EarlierWake(i, k) ==
    /\ i \in 1..Len(earlier)
    /\ earlier[i][k] = "sleep"
    /\ ~CanTrigger(k, state, now)
    /\ state' = CheckNewDay(state, now)
    /\ disk' = SaveOnNewDay(state, disk, now)
    /\ op' = CanTriggerOp(k, state, now)
    /\ earlier' = [earlier EXCEPT
                     ![i][k] = IF is_running THEN "sleep" ELSE "ended"]
    /\ retry' = IdleRetry
    /\ sent_ok' = FALSE
    /\ spacing_ok' = TRUE
    /\ UNCHANGED <<is_running, starter, pc, lcFrame>>

\* The gather of an earlier start call returns: its finally clause.
EarlierReturns(i) ==
    /\ i \in 1..Len(earlier)
    /\ \A k \in Kinds : earlier[i][k] = "ended"
    /\ is_running' = FALSE
    /\ earlier' = [j \in 1..(Len(earlier) - 1) |->
                     IF j < i THEN earlier[j] ELSE earlier[j + 1]]
    /\ op' = NoOp
    /\ retry' = IdleRetry
    /\ sent_ok' = FALSE
    /\ spacing_ok' = TRUE
    /\ UNCHANGED <<state, disk, starter, pc, lcFrame>>

NextLC ==
    \/ LCStart
    \/ LCStop
    \/ LCResetErrorState
    \/ StartReturns
    \/ \E k \in Kinds : LoopBegin(k)
    \/ \E k \in Kinds, fire \in BOOLEAN, active \in BOOLEAN :
          LoopWake(k, fire, active)
    \/ \E i \in 1..MaxEarlier, k \in Kinds : EarlierBegin(i, k)
    \/ \E i \in 1..MaxEarlier, k \in Kinds : EarlierWake(i, k)
    \/ \E i \in 1..MaxEarlier : EarlierReturns(i)
    \/ Tick

SpecLC == InitLC /\ [][NextLC]_vars

(***************************************************************************)
(* Lifecycle calls in any order (checked under SpecLC)                     *)
(***************************************************************************)
\* The loops of kind k that have begun and have not ended.
ActiveLoops(k) ==
    (IF pc[k] \in {"sleep"} \cup InFlight THEN 1 ELSE 0)
       + Cardinality({i \in 1..Len(earlier) : earlier[i][k] = "sleep"})

\* C37: whatever the order of start_all_triggers, stop_all_triggers and
\* reset_error_state calls, at most one mood loop and at most one random loop
\* are active at any time.
C37_OneLoopPerKind ==
    \A k \in Kinds : ActiveLoops(k) <= 1

\* C39: a reset_error_state call leaves is_running, both loop tasks and the
\* record of the rate limiter as they were: a loop that was running before
\* the call is still running after it.
C39_ResetFrame ==
    [][op'.name = "reset_error_state"
          => /\ is_running' = is_running
             /\ pc' = pc
             /\ earlier' = earlier
             /\ state' = state]_vars

(***************************************************************************)
(* The startup handler: the ON_START event and the delayed auto-start task *)
(* of one ProactiveStartupHandler (SpecSU)                                 *)
(***************************************************************************)
\* max_retries of the wait for the plug-in configuration
StartupMaxRetries == 3

\* plugin_config: None, a configuration with plugin.enabled true or false,
\* or the empty dict _load_config_from_file returns when it finds no file.
PluginConfigs == {"None", "enabled", "disabled", "empty"}

\* `not self.plugin_config`
Falsy(c) == c \in {"None", "empty"}

\* self.manager = ProactiveManager(...);
\* asyncio.create_task(self.manager.start_all_triggers())
NewManager(h) ==
    [h EXCEPT !.managers = Append(@, "pending"),
              !.manager = Len(h.managers) + 1]

\* _perform_startup after _test_api_access
Started(h) ==
    [NewManager(h) EXCEPT !.auto_started = TRUE, !.task = "done"]

\* _perform_startup up to the await of the model service in
\* _test_api_access, or to its end when the test makes no request
PerformStartup(h, suspends) ==
    IF h.plugin_config = "disabled"
    THEN [h EXCEPT !.task = "done"]
    ELSE IF suspends
         THEN [h EXCEPT !.task = "api_test", !.test_request = TRUE]
         ELSE Started(h)

\* _delayed_auto_start after its wait loop: the fallback to the file, then
\* the startup
AfterWait(h, file, suspends) ==
    LET c == IF Falsy(h.plugin_config) THEN file ELSE h.plugin_config
        h1 == [h EXCEPT !.plugin_config = c]
    IN  IF Falsy(c)
        THEN [h1 EXCEPT !.task = "done"]
        ELSE PerformStartup(h1, suspends)

\* The condition of the wait loop is read
WaitLoop(h, file, suspends) ==
    IF Falsy(h.plugin_config) /\ h.retry_count < StartupMaxRetries
    THEN [h EXCEPT !.task = "wait"]
    ELSE AfterWait(h, file, suspends)

InitSU ==
    /\ config \in LCConfigs
    /\ global_config = NoAdapterLists
    /\ attempt = NoAttempt
    /\ now = 0
    /\ disk = <<>>
    /\ state = LoadState(disk, now)
    /\ op = NoOp
    /\ pre = NoPre
    /\ health = InitHealth
    /\ hret = "none"
    /\ errs_in_row = 0
    /\ retry = IdleRetry
    /\ is_running = FALSE
    /\ starter = "idle"
    /\ pc = Kinds2Pc
    /\ sent_ok = FALSE
    /\ last_rec = None
    /\ spacing_ok = TRUE
    /\ overlapped = FALSE
    /\ lj = DefaultJudgeConfig
    /\ judge = NoJudge
    /\ cycle = NoCycle
    /\ earlier = <<>>
    /\ handler \in {NewHandler, [NewHandler EXCEPT !.task = "absent"]}

suFrame == <<config, global_config, now, state, disk, op, pre, health, hret,
             errs_in_row, retry, attempt, is_running, starter, pc, sent_ok,
             last_rec, spacing_ok, overlapped, lj, judge, cycle, earlier>>

\* The host's plug-in loader hands the handler its configuration, at a time
\* of its choosing: the wait loop of _delayed_auto_start expects it late.
SetPluginConfig(c) ==
    /\ Falsy(handler.plugin_config)
    /\ handler' = [handler EXCEPT !.plugin_config = c]
    /\ UNCHANGED suFrame

\* execute: the ON_START event is delivered.
Execute ==
    /\ handler.on_start < MaxOnStart
    /\ handler' =
         LET h == [handler EXCEPT !.on_start = @ + 1]
         IN  IF Falsy(h.plugin_config) \/ h.plugin_config = "disabled"
             THEN h
             ELSE NewManager(h)
    /\ UNCHANGED suFrame

\* _delayed_auto_start: the first sleep ends.
DelayedWake(file, suspends) ==
    /\ handler.task = "sleep"
    /\ handler' = IF handler.auto_started
                  THEN [handler EXCEPT !.task = "done"]
                  ELSE WaitLoop(handler, file, suspends)
    /\ UNCHANGED suFrame

\* _delayed_auto_start: a sleep of the wait loop ends.
DelayedRetry(file, suspends) ==
    /\ handler.task = "wait"
    /\ handler' = WaitLoop([handler EXCEPT !.retry_count = @ + 1],
                           file, suspends)
    /\ UNCHANGED suFrame

\* _perform_startup: _test_api_access returns.
ApiTestDone ==
    /\ handler.task = "api_test"
    /\ handler' = Started(handler)
    /\ UNCHANGED suFrame

\* The start_all_triggers task of the i-th manager runs: is_running is set
\* and its loops are created.
ManagerStarts(i) ==
    /\ i \in 1..Len(handler.managers)
    /\ handler.managers[i] = "pending"
    /\ handler' = [handler EXCEPT !.managers[i] = "running"]
    /\ UNCHANGED suFrame

NextSU ==
    \/ \E c \in {"enabled", "disabled"} : SetPluginConfig(c)
    \/ Execute
    \/ \E file \in {"enabled", "disabled", "empty"}, suspends \in BOOLEAN :
          DelayedWake(file, suspends)
    \/ \E file \in {"enabled", "disabled", "empty"}, suspends \in BOOLEAN :
          DelayedRetry(file, suspends)
    \/ ApiTestDone
    \/ \E i \in 1..(MaxOnStart + 1) : ManagerStarts(i)

SpecSU == InitSU /\ [][NextSU]_vars

\* C38: whatever the order of the ON_START event and the delayed auto-start
\* task of one ProactiveStartupHandler, at most one ProactiveManager is ever
\* constructed and started.
C38_SingleEngine ==
    Len(handler.managers) <= 1

====
